---- MODULE Spec2Model ----
(***************************************************************************)
(* A model of the rule engine of the board game prototype                  *)
(* (boardgame-prototype/src/core/GameEngine.ts) together with the intent   *)
(* resolution handlers of its caller (the App component, whose current     *)
(* text is the second half of boardgame-prototype/src/types/index.ts).     *)
(*                                                                         *)
(* Card texts are sequences of word tokens; the parser of the engine is    *)
(* modelled on tokens: split('.') and split(' or ') cut at the tokens "."  *)
(* and "or", includes(k) is containment of k in the lower-cased spelling   *)
(* of a token, toLowerCase is the table Lower.                             *)
(***************************************************************************)
EXTENDS Integers, Sequences, FiniteSets, TLC

\* ------------------------------------------------------------------ bounds

\* Number of outcomes of one shuffleArray call that are explored.
MaxShuffle == 2

\* Number of calls (of the engine or of a handler of the caller) in a run.
MaxSteps == 6

\* The number of calls a run of the App's handlers is followed for.
MaxAppSteps == 8

\* ------------------------------------------------------- program constants

NumPlayers == 2

DealSize == 10

HandSize == 5

MarketSize == 5

StartGold == 5

NumSpots == 20

GridSize == 5

GridRows == 4

CardsPerGuild == 10

\* The guilds, in the order of the keys of createPlayer's guildPiles.
Guilds == <<"military", "culture", "technology", "royal", "trade">>

\* The guilds in the order cards.json lists them.
CatalogGuilds == <<"trade", "royal", "technology", "culture", "military">>

Colors == <<"blue", "red", "green", "yellow", "purple">>

GuildSet == {Guilds[i] : i \in 1..Len(Guilds)}

NumCards == CardsPerGuild * Len(Guilds)

Cards == 1..NumCards

\* A card id that is in no zone (an unknown identifier given by a caller).
NoCard == NumCards + 1

\* ------------------------------------------------------------------ tokens

Dot == "."

\* The arrow U+2192 of the card texts, and its ASCII spelling.
UArrow == "U+2192"

AArrow == "->"

\* The byte sequence c3 a2 e2 80 a0 e2 80 99 that handleDiscardAction looks for.
Mojibake == "U+00E2 U+2020 U+2019"

\* toLowerCase on the vocabulary of the card texts.
Lower(tok) ==
    CASE tok = "Army" -> "army"
      [] tok = "Pay" -> "pay"
      [] tok = "Gold" -> "gold"
      [] tok = "Discard" -> "discard"
      [] tok = "Gain" -> "gain"
      [] tok = "VP" -> "vp"
      [] tok = "Draw" -> "draw"
      [] tok = "Take" -> "take"
      [] tok = "Fight" -> "fight"
      [] tok = "Knowledge" -> "knowledge"
      [] tok = "Build" -> "build"
      [] tok = "Outpost" -> "outpost"
      [] tok = "Outposts" -> "outposts"
      [] tok = "Exile" -> "exile"
      [] tok = "Bury" -> "bury"
      [] tok = "Revive" -> "revive"
      [] OTHER -> tok

\* The keywords that occur as substrings of a lower-cased token.
Substrings(low) ==
    CASE low = "discard" -> {"discard", "card"}
      [] low = "cards" -> {"card"}
      [] low = "outposts" -> {"outpost"}
      [] OTHER -> {low}

IsDigits(tok) == tok \in {"1", "2", "3"}

ParseInt(tok) == CASE tok = "1" -> 1 [] tok = "2" -> 2 [] tok = "3" -> 3 [] OTHER -> 0

\* String.prototype.includes(keyword) on the normalized text.
Includes(text, keyword) ==
    \E i \in 1..Len(text) : keyword \in Substrings(text[i])

normalizeText(text) == [i \in 1..Len(text) |-> Lower(text[i])]

textContains(text, keyword) == Includes(normalizeText(text), keyword)

\* The positions of the separator tokens that String.prototype.split cuts at.
\* A separator written with surrounding blanks (' or ', ' and ') needs a token
\* on either side.
CutsAt(text, sep, spaced) ==
    {i \in 1..Len(text) : text[i] = sep /\ (spaced => (i > 1 /\ i < Len(text)))}

RECURSIVE SplitFrom(_, _, _)
SplitFrom(text, cuts, from) ==
    LET next == {i \in cuts : i >= from} IN
    IF next = {} THEN <<SubSeq(text, from, Len(text))>>
    ELSE LET c == CHOOSE i \in next : \A j \in next : i <= j
         IN <<SubSeq(text, from, c - 1)>> \o SplitFrom(text, cuts, c + 1)

Split(text, sep, spaced) == SplitFrom(text, CutsAt(text, sep, spaced), 1)

\* The first match of /<word> (\d+) <unit>/ in a normalized text: the number
\* matched, or -1 when the expression does not match.
MatchNumber(norm, word, unit) ==
    LET at == {i \in 1..Len(norm) - 2 :
                  /\ word \in Substrings(norm[i])
                  /\ IsDigits(norm[i + 1])
                  /\ unit \in Substrings(norm[i + 2])} IN
    IF at = {} THEN -1
    ELSE ParseInt(norm[(CHOOSE i \in at : \A j \in at : i <= j) + 1])

\* ----------------------------------------------------------------- catalog

GuildOf(c) == CatalogGuilds[((c - 1) \div CardsPerGuild) + 1]

\* The place of a card among the cards of its guild, 0..9.
Slot(c) == (c - 1) % CardsPerGuild

\* Two cards of every colour in every guild.
ColorOf(c) ==
    IF Slot(c) <= 1 THEN Colors[1] ELSE Colors[((Slot(c) - 2) % 4) + 2]

\* The three tier texts of a guild (implementation_spec.md, Power Scaling System).
Power1(g) ==
    CASE g = "military" -> <<"Army", Dot, "Pay", "1", "Gold", UArrow, "Army">>
      [] g = "culture" -> <<"Gain", "Knowledge", Dot, "Pay", "1", "Knowledge", UArrow, "Draw", "1">>
      [] g = "technology" -> <<"Gain", "1", "Gold", Dot, "Pay", "1", "Gold", UArrow, "Take", "1">>
      [] g = "royal" -> <<"Gain", "1", "VP", Dot, "Exile", "1", UArrow, "Gain", "1", "VP">>
      [] OTHER -> <<"Build", "Outpost", Dot, "Pay", "1", "Gold", UArrow, "Build", "Outpost">>

Power23(g) ==
    CASE g = "military" -> <<"Army", Dot, "Army">>
      [] g = "culture" -> <<"Gain", "Knowledge", Dot, "Gain", "Knowledge">>
      [] g = "technology" -> <<"Gain", "1", "Gold", Dot, "Gain", "1", "Gold">>
      [] g = "royal" -> <<"Gain", "1", "VP", Dot, "Gain", "1", "VP">>
      [] OTHER -> <<"Build", "Outpost", Dot, "Build", "Outpost">>

Power45(g) ==
    CASE g = "military" -> <<"Army", Dot, "Army", Dot, "Discard", "1", UArrow, "Army">>
      [] g = "culture" -> <<"Gain", "Knowledge", Dot, "Gain", "Knowledge", Dot,
                            "Discard", "1", UArrow, "Gain", "Knowledge">>
      [] g = "technology" -> <<"Gain", "1", "Gold", Dot, "Gain", "1", "Gold", Dot,
                               "Discard", "1", UArrow, "Gain", "2", "Gold">>
      [] g = "royal" -> <<"Gain", "1", "VP", Dot, "Gain", "1", "VP", Dot,
                          "Exile", "1", UArrow, "Gain", "2", "VP">>
      [] OTHER -> <<"Build", "Outpost", Dot, "Build", "Outpost", Dot,
                    "Discard", "1", UArrow, "Build", "2", "Outposts">>

\* The bonus text of a card, by its place in the guild.
Bonus(slot) ==
    CASE slot = 0 -> <<"Draw", "1", "card", "or", "Take", "1", "card", Dot,
                       "Draw", "1", "card", "or", "Take", "1", "card">>
      [] slot = 1 -> <<"Discard", "2", "cards", AArrow, "Gain", "2", "Gold", "and", "Gain", "1", "VP">>
      [] slot = 2 -> <<"Draw", "1", "card", "or", "Build", "Outpost", Dot,
                       "Gain", "1", "Gold", "or", "Gain", "1", "VP">>
      [] slot = 3 -> <<"Discard", "1", "card", UArrow, "Army">>
      [] slot = 4 -> <<"Pay", "2", "Gold", UArrow, "Army", "or", "Fight">>
      [] slot = 5 -> <<"Take", "1", "card">>
      [] slot = 6 -> <<"Draw", "1", "card">>
      [] slot = 7 -> <<"Gain", "1", "VP">>
      [] slot = 8 -> <<"Gain", "1", "Army">>
      [] OTHER -> <<"Gain", "1", "Gold">>

\* cards.json: the card records createShuffledDeck reads.
Catalog(c) ==
    [id |-> c, guild |-> GuildOf(c), color |-> ColorOf(c),
     power1 |-> Power1(GuildOf(c)), power23 |-> Power23(GuildOf(c)),
     power45 |-> Power45(GuildOf(c)), bonus |-> Bonus(Slot(c))]


\* ------------------------------------------------------------ card effects

\* createPlayer: the record of a new player.
createPlayer ==
    [hand |-> <<>>, deck |-> <<>>, discard |-> <<>>, exile |-> <<>>,
     guildPiles |-> [g \in GuildSet |-> <<>>],
     gold |-> StartGold, knowledge |-> 0, victoryPoints |-> 0,
     drawCards |-> 0, takeCards |-> 0, discardCards |-> 0, exileCards |-> 0,
     buryCards |-> 0, fight |-> 0, outpost |-> 0, revive |-> 0,
     armies |-> 0]

updateResourceCounters(p, actionText) ==
    LET n == normalizeText(actionText) IN
    IF Includes(n, "draw") THEN [p EXCEPT !.drawCards = @ + 1]
    ELSE IF Includes(n, "take") THEN [p EXCEPT !.takeCards = @ + 1]
    ELSE IF Includes(n, "discard") THEN [p EXCEPT !.discardCards = @ + 1]
    ELSE IF Includes(n, "exile") THEN [p EXCEPT !.exileCards = @ + 1]
    ELSE IF Includes(n, "bury") THEN [p EXCEPT !.buryCards = @ + 1]
    ELSE IF Includes(n, "fight") THEN [p EXCEPT !.fight = @ + 1]
    ELSE IF Includes(n, "outpost") THEN [p EXCEPT !.outpost = @ + 1]
    ELSE IF Includes(n, "revive") THEN [p EXCEPT !.revive = @ + 1]
    ELSE p

\* parseConditionalPower: <<left, right>> around the first arrow, <<>> for null.
parseConditionalPower(powerText) ==
    LET uni == {i \in 1..Len(powerText) : powerText[i] = UArrow}
        asc == {i \in 1..Len(powerText) : powerText[i] = AArrow}
        at == IF uni # {} THEN uni ELSE asc IN
    IF at = {} THEN <<>>
    ELSE LET a == CHOOSE i \in at : \A j \in at : i <= j
         IN <<SubSeq(powerText, 1, a - 1), SubSeq(powerText, a + 1, Len(powerText))>>

\* parseChoicePower: the alternatives around ' or ', <<>> for null.
parseChoicePower(powerText) ==
    IF CutsAt(powerText, "or", TRUE) = {} THEN <<>>
    ELSE Split(powerText, "or", TRUE)

\* A check that finds every cost payable.
canAlwaysExecute(p, leftPart) == TRUE

canExecuteConditionalPower(p, leftPart) ==
    LET normalizedLeft == normalizeText(leftPart) IN
    IF Includes(normalizedLeft, "pay") /\ Includes(normalizedLeft, "gold")
    THEN IF MatchNumber(normalizedLeft, "pay", "gold") >= 0
         THEN p.gold >= MatchNumber(normalizedLeft, "pay", "gold")
         ELSE p.gold > 0
    ELSE TRUE

\* One ' and '-joined part of a benefit (executeConditionalPower, lines 716-746).
BenefitPart(p, part) ==
    IF Includes(part, "fight") THEN [p EXCEPT !.fight = @ + 1]
    ELSE IF Includes(part, "army") THEN [p EXCEPT !.armies = @ + 1]
    ELSE IF Includes(part, "gold")
         THEN IF MatchNumber(part, "gain", "gold") >= 0
              THEN [p EXCEPT !.gold = @ + MatchNumber(part, "gain", "gold")]
              ELSE [p EXCEPT !.gold = @ + 1]
    ELSE IF Includes(part, "knowledge") THEN [p EXCEPT !.knowledge = @ + 1]
    ELSE IF Includes(part, "vp") THEN [p EXCEPT !.victoryPoints = @ + 1]
    ELSE IF Includes(part, "draw") /\ Includes(part, "card") THEN [p EXCEPT !.drawCards = @ + 1]
    ELSE IF Includes(part, "take") /\ Includes(part, "card") THEN [p EXCEPT !.takeCards = @ + 1]
    ELSE IF Includes(part, "discard") /\ Includes(part, "card") THEN [p EXCEPT !.discardCards = @ + 1]
    ELSE IF Includes(part, "exile") /\ Includes(part, "card") THEN [p EXCEPT !.exileCards = @ + 1]
    ELSE IF Includes(part, "bury") /\ Includes(part, "card") THEN [p EXCEPT !.buryCards = @ + 1]
    ELSE p

RECURSIVE BenefitParts(_, _, _)
BenefitParts(p, parts, i) ==
    IF i > Len(parts) THEN p
    ELSE BenefitParts(BenefitPart(p, parts[i]), parts, i + 1)

executeConditionalPowerBenefitOnly(p, rightPart) ==
    BenefitParts(p, Split(normalizeText(rightPart), "and", TRUE), 1)

\* A cost that is a discard requirement (executeConditionalPower, line 701).
IsDiscardCost(leftPart) ==
    Includes(normalizeText(leftPart), "discard") /\ Includes(normalizeText(leftPart), "card")

executeConditionalPower(p, leftPart, rightPart) ==
    LET normalizedLeft == normalizeText(leftPart) IN
    IF Includes(normalizedLeft, "pay") /\ Includes(normalizedLeft, "gold")
    THEN LET goldToPay == IF MatchNumber(normalizedLeft, "pay", "gold") >= 0
                          THEN MatchNumber(normalizedLeft, "pay", "gold") ELSE 1
         IN executeConditionalPowerBenefitOnly([p EXCEPT !.gold = @ - goldToPay], rightPart)
    ELSE IF IsDiscardCost(leftPart)
    THEN LET cardsToDiscard == IF MatchNumber(normalizedLeft, "discard", "card") >= 0
                               THEN MatchNumber(normalizedLeft, "discard", "card") ELSE 1
         IN [p EXCEPT !.discardCards = cardsToDiscard]
    ELSE executeConditionalPowerBenefitOnly(p, rightPart)

executeChoicePower(p, choice) ==
    LET c == normalizeText(choice) IN
    IF Includes(c, "draw") /\ Includes(c, "card") THEN [p EXCEPT !.drawCards = @ + 1]
    ELSE IF Includes(c, "take") /\ Includes(c, "card") THEN [p EXCEPT !.takeCards = @ + 1]
    ELSE IF Includes(c, "gain") /\ Includes(c, "knowledge") THEN [p EXCEPT !.knowledge = @ + 1]
    ELSE IF Includes(c, "gain") /\ Includes(c, "vp") THEN [p EXCEPT !.victoryPoints = @ + 1]
    ELSE IF Includes(c, "gain") /\ Includes(c, "gold")
         THEN IF MatchNumber(c, "gain", "gold") >= 0
              THEN [p EXCEPT !.gold = @ + MatchNumber(c, "gain", "gold")]
              ELSE [p EXCEPT !.gold = @ + 1]
    ELSE IF Includes(c, "fight") THEN [p EXCEPT !.fight = @ + 1]
    ELSE IF Includes(c, "army") THEN [p EXCEPT !.armies = @ + 1]
    ELSE IF Includes(c, "revive") THEN [p EXCEPT !.revive = @ + 1]
    ELSE p

\* The keywords both immediate branches hand to updateResourceCounters.
IsCounterText(text) ==
    \E k \in {"draw", "take", "discard", "exile", "bury", "fight"} : textContains(text, k)

\* 'army (x2)' as a substring of the normalized clause.
HasArmyTwice(text) ==
    \E i \in 1..Len(text) - 1 : Lower(text[i]) = "army" /\ Lower(text[i + 1]) = "(x2)"

\* A clause of the tier text that is neither conditional nor a choice (lines 544-564).
ImmediatePower(p, trimmed) ==
    IF normalizeText(trimmed) = <<"army">> THEN [p EXCEPT !.armies = @ + 1]
    ELSE IF textContains(trimmed, "gold") /\ ~Includes(trimmed, UArrow) THEN [p EXCEPT !.gold = @ + 1]
    ELSE IF textContains(trimmed, "knowledge") /\ ~Includes(trimmed, UArrow) THEN [p EXCEPT !.knowledge = @ + 1]
    ELSE IF textContains(trimmed, "vp") /\ ~Includes(trimmed, UArrow) THEN [p EXCEPT !.victoryPoints = @ + 1]
    ELSE IF IsCounterText(trimmed) THEN updateResourceCounters(p, trimmed)
    ELSE IF HasArmyTwice(trimmed) THEN [p EXCEPT !.armies = @ + 2]
    ELSE p

\* A clause of the bonus text that is neither conditional nor a choice (lines 604-622).
ImmediateBonus(p, trimmed) ==
    LET normalized == normalizeText(trimmed) IN
    IF normalized = <<"gain", "1", "gold">> THEN [p EXCEPT !.gold = @ + 1]
    ELSE IF normalized = <<"gain", "1", "knowledge">> THEN [p EXCEPT !.knowledge = @ + 1]
    ELSE IF normalized = <<"gain", "1", "vp">> THEN [p EXCEPT !.victoryPoints = @ + 1]
    ELSE IF normalized = <<"gain", "1", "army">> THEN [p EXCEPT !.armies = @ + 1]
    ELSE IF IsCounterText(trimmed) THEN updateResourceCounters(p, trimmed)
    ELSE p

\* The body of the two forEach loops of processCardEffects: acc holds the player
\* and the two lists built so far.
ProcessPart(acc, trimmed, isBonus) ==
    LET conditionalPower == parseConditionalPower(trimmed) IN
    IF conditionalPower # <<>>
    THEN IF canExecuteConditionalPower(acc.player, conditionalPower[1])
         THEN [acc EXCEPT !.conditionalPowers = Append(@,
                  [left |-> conditionalPower[1], right |-> conditionalPower[2],
                   fullText |-> trimmed,
                   nestedChoices |-> parseChoicePower(conditionalPower[2])])]
         ELSE acc
    ELSE IF parseChoicePower(trimmed) # <<>>
    THEN [acc EXCEPT !.choicePowers = Append(@,
             [choices |-> parseChoicePower(trimmed), fullText |-> trimmed])]
    ELSE [acc EXCEPT !.player = IF isBonus THEN ImmediateBonus(@, trimmed)
                                ELSE ImmediatePower(@, trimmed)]

RECURSIVE ProcessParts(_, _, _, _)
ProcessParts(acc, parts, i, isBonus) ==
    IF i > Len(parts) THEN acc
    ELSE ProcessParts(ProcessPart(acc, parts[i], isBonus), parts, i + 1, isBonus)

\* A position beyond the three tiers selects the empty text.
EmptyText == <<>>

\* A selection that counts the pile before the card was added.
SelectPowerTextBefore(card, position) ==
    IF position - 1 <= 1 THEN card.power1
    ELSE IF position - 1 <= 3 THEN card.power23
    ELSE card.power45

\* The tier text selected by the length of the pile after the card was added.
SelectPowerText(card, position) ==
    IF position = 1 THEN card.power1
    ELSE IF position >= 2 /\ position <= 3 THEN card.power23
    ELSE IF position >= 4 /\ position <= 5 THEN card.power45
    ELSE EmptyText

\* processCardEffects: the player after the immediate effects, and the intents.
processCardEffects(p, card, guildPile) ==
    LET powerText == SelectPowerText(card, Len(guildPile))
        afterPower == ProcessParts([player |-> p, conditionalPowers |-> <<>>, choicePowers |-> <<>>],
                                   Split(powerText, Dot, FALSE), 1, FALSE)
    IN ProcessParts(afterPower, Split(card.bonus, Dot, FALSE), 1, TRUE)


\* --------------------------------------------------------------- sequences

Last(s) == s[Len(s)]

Front(s) == SubSeq(s, 1, Len(s) - 1)

Elems(s) == {s[i] : i \in 1..Len(s)}

\* A search that finds the first card when the card named is not there.
FindIndexOrFirst(s, c) ==
    IF c \in Elems(s) THEN CHOOSE i \in 1..Len(s) : s[i] = c /\ \A j \in 1..(i - 1) : s[j] # c
    ELSE IF s = <<>> THEN 0 ELSE 1

\* Array.prototype.findIndex by card id, 0 for -1.
FindIndex(s, c) ==
    IF c \in Elems(s) THEN CHOOSE i \in 1..Len(s) : s[i] = c /\ \A j \in 1..(i - 1) : s[j] # c
    ELSE 0

\* Array.prototype.splice(index, 1).
RemoveAt(s, i) == SubSeq(s, 1, i - 1) \o SubSeq(s, i + 1, Len(s))

\* n times pop() from the end of from, each pushed on to; stops when from is empty.
RECURSIVE PopInto(_, _, _)
PopInto(from, to, n) ==
    IF n = 0 \/ from = <<>> THEN <<from, to>>
    ELSE PopInto(Front(from), Append(to, Last(from)), n - 1)

Rotate(s, k) ==
    IF Len(s) = 0 THEN s
    ELSE LET r == k % Len(s) IN SubSeq(s, Len(s) - r + 1, Len(s)) \o SubSeq(s, 1, Len(s) - r)

\* shuffleArray: the k-th outcome of the random sort that is explored, the rotation
\* of the array by k places.
shuffleArray(s, k) == Rotate(s, k)

\* Array.prototype.filter(p => p.fullText !== power.fullText).
RECURSIVE FilterOut(_, _)
FilterOut(list, fullText) ==
    IF list = <<>> THEN <<>>
    ELSE IF list[1].fullText = fullText THEN FilterOut(Tail(list), fullText)
    ELSE <<list[1]>> \o FilterOut(Tail(list), fullText)

\* --------------------------------------------------------------------- map

Spots == 1..NumSpots

\* A spot id that is not on the map.
NoSpot == NumSpots + 1

\* map.json: the kind of a spot (implementation_spec.md, Spot Types).
SpotType(i) ==
    IF i \in {1, GridSize} THEN "starting"
    ELSE IF i % GridSize = 0 THEN "outpost"
    ELSE "normal"

\* Adjacency lists that pass the ends of the rows.
AdjacentWrapping(position) ==
    LET row == (position - 1) \div GridSize IN
    (IF row > 0 THEN {position - GridSize} ELSE {})
    \cup (IF row < GridRows - 1 THEN {position + GridSize} ELSE {})
    \cup (IF position > 1 THEN {position - 1} ELSE {})
    \cup (IF position < NumSpots THEN {position + 1} ELSE {})

\* map.json: the adjacency lists (implementation_spec.md, getAdjacentSpots).
Adjacent(position) ==
    LET row == (position - 1) \div GridSize
        col == (position - 1) % GridSize IN
    (IF row > 0 THEN {position - GridSize} ELSE {})
    \cup (IF row < GridRows - 1 THEN {position + GridSize} ELSE {})
    \cup (IF col > 0 THEN {position - 1} ELSE {})
    \cup (IF col < GridSize - 1 THEN {position + 1} ELSE {})

\* No player: the occupyingPlayer of a free spot, and an id no player has.
NoPlayer == 0

initializeMap == [i \in Spots |-> [occupyingPlayer |-> NoPlayer, armies |-> 0]]

\* --------------------------------------------------------------- the state

VARIABLES
    players,                    \* state.players, shared by every copy of the state
    currentPlayerIndex,         \* state.currentPlayerIndex of the engine's state
    phase,                      \* state.phase
    commonDeck,                 \* state.commonDeck
    market,                     \* state.market
    map,                        \* state.map
    pendingConditionalPowers,   \* state.pendingConditionalPowers of the engine's state
    pendingChoicePowers,        \* state.pendingChoicePowers of the engine's state
    gameState,                  \* the state value the caller holds (App: gameState)
    choicePowerPrompt,          \* App: the open choice prompt and what its buttons do
    conditionalPowerPrompt,     \* App: the open yes/no prompt
    thrown,                     \* the last call raised a TypeError
    last,                       \* the last call made (history)
    owed,                       \* the discard-cost intent last accepted (history)
    steps,                      \* the calls made so far
    limit                       \* the number of calls a run is followed for

vars == <<players, currentPlayerIndex, phase, commonDeck, market, map,
          pendingConditionalPowers, pendingChoicePowers, gameState,
          choicePowerPrompt, conditionalPowerPrompt, thrown, last, owed, steps, limit>>

engineVars == <<players, currentPlayerIndex, phase, commonDeck, market, map,
                pendingConditionalPowers, pendingChoicePowers>>

appVars == <<gameState, choicePowerPrompt, conditionalPowerPrompt>>

\* Player ids are 1..Len(players) ('player-1', 'player-2'); the ids a caller may
\* give include one that no player has.
PlayerIds == 1..(NumPlayers + 1)

\* players.find(p => p.id === playerId): the index of the player, 0 for undefined.
FindPlayer(playerId) == IF playerId \in 1..Len(players) THEN playerId ELSE 0

NoPrompt == [kind |-> "none", choices |-> <<>>]

\* No intent.
NoPower == [fullText |-> <<>>]

\* No discard-cost intent was accepted yet.
NoOwed == [player |-> 0]

\* The history of the discard-cost intent last accepted, after a call: the intent,
\* the player who accepted it, the discards that player made since, and whether
\* its benefit was applied since.
Track(record) ==
    IF record.op = "conditional" /\ record.accept /\ record.discardCost
    THEN [player |-> record.player, power |-> record.power, done |-> 0, benefited |-> FALSE]
    ELSE IF owed.player = 0 THEN owed
    ELSE IF record.op = "discardCard"
    THEN [owed EXCEPT !.done = IF record.player = owed.player THEN @ + 1 ELSE @]
    ELSE IF record.op = "discard"
    THEN [owed EXCEPT !.done = IF record.player = owed.player THEN @ + 1 ELSE @,
                      !.benefited = @ \/ (record.benefit /\ record.power = owed.power)]
    ELSE IF record.op = "choice"
    THEN [owed EXCEPT !.benefited = @ \/ (record.kind = "benefit" /\ record.power = owed.power)]
    ELSE owed

\* The fields of a state copy that are its own (the rest is shared by reference).
Snapshot(idx, cond, choice) == [currentPlayerIndex |-> idx, conditional |-> cond, choice |-> choice]

\* createInitialState: the state of a new engine with nothing saved.
Init ==
    /\ players = <<>>
    /\ currentPlayerIndex = 0
    /\ phase = "setup"
    /\ commonDeck = <<>>
    /\ market = <<>>
    /\ map = <<>>
    /\ pendingConditionalPowers = <<>>
    /\ pendingChoicePowers = <<>>
    /\ gameState = Snapshot(0, <<>>, <<>>)
    /\ choicePowerPrompt = NoPrompt
    /\ conditionalPowerPrompt = NoPrompt
    /\ thrown = FALSE
    /\ last = [op |-> "new"]
    /\ owed = NoOwed
    /\ steps = 0
    /\ limit = MaxSteps


\* ------------------------------------------------------ engine operations

\* The fields of the engine's state that a copy of it carries.
EngineSnapshot == Snapshot(currentPlayerIndex, pendingConditionalPowers, pendingChoicePowers)

\* What a call hands back to its caller: the engine's state after the call.
Returned == Snapshot(currentPlayerIndex', pendingConditionalPowers', pendingChoicePowers')

\* The bookkeeping of a call that changed the engine's state and returned it.
Called(record) ==
    /\ steps < limit
    /\ steps' = steps + 1
    /\ thrown' = FALSE
    /\ last' = record
    /\ owed' = Track(record)
    /\ UNCHANGED limit
    /\ gameState' = Returned

\* A call that changed nothing and returned the engine's state. When that is the
\* state the caller holds already the call leaves no trace (a stuttering step).
Unchanged(record) ==
    /\ steps < limit
    /\ steps' = steps + 1
    /\ thrown' = FALSE
    /\ last' = record
    /\ owed' = Track(record)
    /\ UNCHANGED limit
    /\ gameState' = EngineSnapshot
    /\ UNCHANGED engineVars

Rejected(record) ==
    /\ EngineSnapshot # gameState \/ thrown
    /\ Unchanged(record)
    /\ UNCHANGED <<choicePowerPrompt, conditionalPowerPrompt>>

\* A call that raised: this.state is not assigned and nothing is returned.
Raised(record) ==
    /\ steps < limit
    /\ steps' = IF thrown THEN steps ELSE steps + 1
    /\ thrown' = TRUE
    /\ last' = record
    /\ owed' = Track(record)
    /\ UNCHANGED limit
    /\ UNCHANGED <<engineVars, appVars>>

\* The outcomes of the random source that are explored.
Outcomes == 0..(MaxShuffle - 1)

\* The cards dealt to the players: DealSize times pop() for each player in turn.
RECURSIVE DealFrom(_, _)
DealFrom(deck, n) ==
    IF n = 0 THEN <<>>
    ELSE <<PopInto(deck, <<>>, DealSize)[2]>> \o DealFrom(PopInto(deck, <<>>, DealSize)[1], n - 1)

RECURSIVE RestAfterDeal(_, _)
RestAfterDeal(deck, n) ==
    IF n = 0 THEN deck ELSE RestAfterDeal(PopInto(deck, <<>>, DealSize)[1], n - 1)

\* createShuffledDeck before the shuffle: the cards in catalog order.
allCards == [c \in Cards |-> c]

\* The players initializeGame creates, each with the shuffled cards dealt to it.
DealtPlayers(k) ==
    [i \in 1..NumPlayers |->
        [createPlayer EXCEPT !.deck = shuffleArray(DealFrom(shuffleArray(allCards, k), NumPlayers)[i], k)]]

\* A common deck that keeps the cards dealt to the players.
DeckNotDealt(k) == shuffleArray(allCards, k)

\* The common deck initializeGame leaves.
DealtDeck(k) == RestAfterDeal(shuffleArray(allCards, k), NumPlayers)

initializeGame ==
    /\ players = <<>>
    /\ \E k \in Outcomes :
          /\ players' = DealtPlayers(k)
          /\ commonDeck' = DealtDeck(k)
    /\ currentPlayerIndex' = 0
    /\ phase' = "setup"
    /\ market' = <<>>
    /\ map' = initializeMap
    /\ pendingConditionalPowers' = <<>>
    /\ pendingChoicePowers' = <<>>
    /\ UNCHANGED <<choicePowerPrompt, conditionalPowerPrompt>>
    /\ Called([op |-> "initializeGame"])

initializeMarket ==
    \/ /\ Len(commonDeck) >= MarketSize
       /\ commonDeck' = PopInto(commonDeck, market, MarketSize)[1]
       /\ market' = PopInto(commonDeck, market, MarketSize)[2]
       /\ UNCHANGED <<players, currentPlayerIndex, phase, map, pendingConditionalPowers,
                      pendingChoicePowers, choicePowerPrompt, conditionalPowerPrompt>>
       /\ Called([op |-> "initializeMarket"])
    \/ /\ Len(commonDeck) < MarketSize
       /\ Rejected([op |-> "initializeMarket"])

\* The player state.players[state.currentPlayerIndex].
Current == currentPlayerIndex + 1

\* A play that leaves the card in the hand as well.
PlayedKeepingHand(p, cardIndex) ==
    LET card == Catalog(p.hand[cardIndex])
        guildPile == Append(p.guildPiles[card.guild], card.id)
    IN processCardEffects([p EXCEPT !.guildPiles[card.guild] = guildPile], card, guildPile)

\* The card is played: it leaves the hand for the pile of its guild and its
\* effects are processed against the pile it is now in.
Played(p, cardIndex) ==
    LET card == Catalog(p.hand[cardIndex])
        guildPile == Append(p.guildPiles[card.guild], card.id)
    IN processCardEffects([p EXCEPT !.hand = RemoveAt(@, cardIndex),
                                    !.guildPiles[card.guild] = guildPile],
                          card, guildPile)

\* The tier text processCardEffects selects for the card at that index (history).
PlayedText(p, cardIndex) ==
    LET card == Catalog(p.hand[cardIndex])
    IN SelectPowerText(card, Len(p.guildPiles[card.guild]) + 1)

\* A handleExpandAction that plays the card whatever the player owes.
ExpandAlwaysAllowed(p, cardId) == TRUE

\* What handleExpandAction checks of the card it found in the hand before it
\* plays it.
ExpandAllowed(p, cardId) == ~(p.discardCards > 0)

\* handleExpandAction plays the card.
Expands(cardId) ==
    /\ FindIndex(players[Current].hand, cardId) # 0
    /\ ExpandAllowed(players[Current], cardId)

\* Pending lists that keep the intents of the cards played before.
KeptIntents(pending, generated) == pending \o generated

\* The pending list handleExpandAction assigns: the intents of the card played.
InstalledIntents(pending, generated) == generated

\* handleExpandAction where it plays the card.
Expanded(playerId, cardId) ==
    LET currentPlayer == players[Current]
        cardIndex == FindIndex(currentPlayer.hand, cardId)
        played == Played(currentPlayer, cardIndex) IN
    /\ Expands(cardId)
    /\ players' = [players EXCEPT ![Current] = played.player]
    /\ pendingConditionalPowers' = InstalledIntents(pendingConditionalPowers, played.conditionalPowers)
    /\ pendingChoicePowers' = InstalledIntents(pendingChoicePowers, played.choicePowers)
    /\ UNCHANGED <<currentPlayerIndex, phase, commonDeck, market, map>>
    /\ Called([op |-> "expand", card |-> cardId, player |-> Current,
               own |-> FindPlayer(playerId) = Current,
               powerText |-> PlayedText(currentPlayer, cardIndex),
               open |-> choicePowerPrompt.kind # "none" \/ conditionalPowerPrompt.kind # "none"])

\* What a call of handleExpandAction that plays nothing leaves in the history;
\* known: the card it named is in the hand of the current player.
NotExpanded ==
    [op |-> "expand", card |-> NoCard, player |-> 0, own |-> TRUE, powerText |-> EmptyText,
     open |-> FALSE, known |-> TRUE]

handleExpandAction(playerId, cardId) ==
    \/ Expanded(playerId, cardId)
    \/ /\ ~Expands(cardId)
       /\ Rejected([NotExpanded EXCEPT !.known = cardId \in Elems(players[Current].hand)])

\* A reset that forgets the card credits.
resetWithoutCredits(p) ==
    [p EXCEPT !.knowledge = 0, !.exileCards = 0, !.buryCards = 0, !.fight = 0,
              !.outpost = 0, !.revive = 0]

resetNonPersistentResources(p) ==
    [p EXCEPT !.knowledge = 0, !.drawCards = 0, !.takeCards = 0, !.discardCards = 0,
              !.exileCards = 0, !.buryCards = 0, !.fight = 0, !.outpost = 0, !.revive = 0]

\* The sum of the resources resetNonPersistentResources resets.
Transient(p) ==
    p.knowledge + p.drawCards + p.takeCards + p.discardCards + p.exileCards + p.buryCards
    + p.fight + p.outpost + p.revive

\* The card a pile of more than one card keeps.
KeptCard(pile) == pile[1]

\* The cards such a pile gives to the discard.
NotKept(pile) == Tail(pile)

\* The forEach over the guild piles of handleConsolidateAction (lines 460-467): the
\* player after the piles from Guilds[i] on were reduced.
RECURSIVE ResetPiles(_, _)
ResetPiles(p, i) ==
    IF i > Len(Guilds) THEN p
    ELSE LET pile == p.guildPiles[Guilds[i]] IN
         IF Len(pile) > 1
         THEN ResetPiles([p EXCEPT !.discard = @ \o NotKept(pile),
                                   !.guildPiles[Guilds[i]] = <<KeptCard(pile)>>], i + 1)
         ELSE ResetPiles(p, i + 1)

\* The deck after 'deck = shuffleArray(discard)'.
DeckAfterShuffle(p, shuffled) == shuffled

\* A turn that stays with the same player.
SamePlayerIndex == currentPlayerIndex

\* The index of the next player.
NextPlayerIndex == (currentPlayerIndex + 1) % Len(players)

handleConsolidateAction(playerId) ==
    LET currentPlayer == players[Current]
        discarded == [currentPlayer EXCEPT !.discard = @ \o currentPlayer.hand, !.hand = <<>>]
        reduced == ResetPiles(discarded, 1) IN
    /\ \E k \in Outcomes :
          LET deck == DeckAfterShuffle(reduced, shuffleArray(reduced.discard, k))
              drawn == PopInto(deck, <<>>, HandSize) IN
          players' = [players EXCEPT ![Current] =
                         resetNonPersistentResources(
                             [reduced EXCEPT !.deck = drawn[1], !.discard = <<>>, !.hand = drawn[2]])]
    /\ currentPlayerIndex' = NextPlayerIndex
    /\ UNCHANGED <<phase, commonDeck, market, map, pendingConditionalPowers, pendingChoicePowers>>
    /\ Called([op |-> "consolidate", player |-> Current, own |-> FindPlayer(playerId) = Current,
               credits |-> Transient(currentPlayer),
               trimmed |-> Len(reduced.discard) - Len(discarded.discard)])

\* A first turn that starts the playing phase without the draw.
firstTurnWithoutDraw(playerId) ==
    /\ phase' = "playing"
    /\ UNCHANGED <<players, currentPlayerIndex, commonDeck, market, map, pendingConditionalPowers,
                   pendingChoicePowers>>
    /\ Called([op |-> "endTurn", player |-> Current, own |-> FindPlayer(playerId) = Current,
               setup |-> TRUE])

handleFirstTurnSetup(playerId) ==
    LET currentPlayer == players[Current]
        drawn == PopInto(currentPlayer.deck, currentPlayer.hand, HandSize) IN
    /\ players' = [players EXCEPT ![Current] = [currentPlayer EXCEPT !.deck = drawn[1], !.hand = drawn[2]]]
    /\ phase' = "playing"
    /\ UNCHANGED <<currentPlayerIndex, commonDeck, market, map, pendingConditionalPowers,
                   pendingChoicePowers>>
    /\ Called([op |-> "endTurn", player |-> Current, own |-> FindPlayer(playerId) = Current,
               setup |-> TRUE])

handleEndTurnAction(playerId) ==
    /\ players' = [players EXCEPT ![Current] = resetNonPersistentResources(players[Current])]
    /\ currentPlayerIndex' = NextPlayerIndex
    /\ UNCHANGED <<phase, commonDeck, market, map, pendingConditionalPowers, pendingChoicePowers>>
    /\ Called([op |-> "endTurn", player |-> Current, own |-> FindPlayer(playerId) = Current,
               setup |-> FALSE, credits |-> Transient(players[Current])])

\* The action types of GameAction.
ActionTypes == {"expand", "consolidate", "endTurn"}

\* applyAction on the engine's state. The playerId of the action is read by none
\* of the handlers.
applyAction(type, playerId, cardId) ==
    CASE type = "expand" -> handleExpandAction(playerId, cardId)
      [] type = "consolidate" -> handleConsolidateAction(playerId)
      [] type = "endTurn" -> IF phase = "setup" THEN handleFirstTurnSetup(playerId)
                             ELSE handleEndTurnAction(playerId)

\* processAction. Without players every handler reads a field of the undefined
\* current player.
processAction(type, playerId, cardId) ==
    /\ UNCHANGED <<choicePowerPrompt, conditionalPowerPrompt>>
    /\ IF players = <<>>
       THEN Raised([op |-> type])
       ELSE applyAction(type, playerId, cardId)

\* The ids of the map spots a caller passes to placeArmy.
MaxSpot == 2

SpotInputs == 1..MaxSpot \cup {NoSpot}

\* What placeArmy checks before it places the army.
PlaceAllowed(playerId, spotId) ==
    FindPlayer(playerId) # 0 /\ players[FindPlayer(playerId)].armies > 0

placeArmy(playerId, spotId) ==
    LET i == FindPlayer(playerId) IN
    \/ /\ PlaceAllowed(playerId, spotId)
       /\ spotId \in DOMAIN map
       /\ map' = [map EXCEPT ![spotId] = [occupyingPlayer |-> playerId, armies |-> @.armies + 1]]
       /\ players' = [players EXCEPT ![i].armies = @ - 1]
       /\ UNCHANGED <<currentPlayerIndex, phase, commonDeck, market, pendingConditionalPowers,
                      pendingChoicePowers, choicePowerPrompt, conditionalPowerPrompt>>
       /\ Called([op |-> "placeArmy", player |-> i])
    \/ /\ ~(PlaceAllowed(playerId, spotId) /\ spotId \in DOMAIN map)
       /\ Rejected([op |-> "placeArmy", player |-> 0, known |-> spotId \in DOMAIN map,
                    credit |-> PlaceAllowed(playerId, spotId)])

\* A draw that leaves the credit as it was.
DrawOneKeepsCredit(p, deck) ==
    [p EXCEPT !.deck = Front(deck), !.hand = Append(@, Last(deck))]

\* The player after one card went from the end of the deck to the hand.
DrawOne(p, deck) ==
    [p EXCEPT !.deck = Front(deck), !.hand = Append(@, Last(deck)), !.drawCards = @ - 1]

\* What drawCard checks before it draws.
DrawAllowed(playerId) ==
    FindPlayer(playerId) # 0 /\ players[FindPlayer(playerId)].drawCards > 0

\* drawCard: the deck is the discard, shuffled, when it is empty and the discard
\* is not.
drawCard(playerId) ==
    LET i == FindPlayer(playerId) IN
    \/ /\ DrawAllowed(playerId)
       /\ Len(players[i].deck) + Len(players[i].discard) > 0
       /\ \E k \in Outcomes :
             players' = [players EXCEPT ![i] =
                            IF Len(@.deck) = 0
                            THEN DrawOne([@ EXCEPT !.discard = <<>>], shuffleArray(@.discard, k))
                            ELSE DrawOne(@, @.deck)]
       /\ UNCHANGED <<currentPlayerIndex, phase, commonDeck, market, map, pendingConditionalPowers,
                      pendingChoicePowers, choicePowerPrompt, conditionalPowerPrompt>>
       /\ Called([op |-> "drawCard", player |-> i])
    \/ /\ ~(DrawAllowed(playerId) /\ Len(players[i].deck) + Len(players[i].discard) > 0)
       /\ Rejected([op |-> "drawCard", player |-> 0])

\* The market and the common deck after the card at that index was taken.
MarketRefill(marketCardIndex) ==
    LET taken == RemoveAt(market, marketCardIndex)
        dealt == PopInto(commonDeck, taken, 1)
    IN IF dealt[2] = <<>> /\ Len(dealt[1]) >= MarketSize
       THEN PopInto(dealt[1], dealt[2], MarketSize)
       ELSE dealt

\* What takeCardFromMarket checks before it looks for the card.
TakeAllowed(playerId) ==
    FindPlayer(playerId) # 0 /\ players[FindPlayer(playerId)].takeCards > 0

takeCardFromMarket(playerId, cardId) ==
    LET i == FindPlayer(playerId)
        marketCardIndex == FindIndex(market, cardId) IN
    \/ /\ TakeAllowed(playerId)
       /\ marketCardIndex # 0
       /\ players' = [players EXCEPT ![i].hand = Append(@, cardId), ![i].takeCards = @ - 1]
       /\ commonDeck' = MarketRefill(marketCardIndex)[1]
       /\ market' = MarketRefill(marketCardIndex)[2]
       /\ UNCHANGED <<currentPlayerIndex, phase, map, pendingConditionalPowers,
                      pendingChoicePowers, choicePowerPrompt, conditionalPowerPrompt>>
       /\ Called([op |-> "takeCardFromMarket", player |-> i])
    \/ /\ ~(TakeAllowed(playerId) /\ marketCardIndex # 0)
       /\ Rejected([op |-> "takeCardFromMarket", player |-> 0, known |-> marketCardIndex # 0,
                    credit |-> TakeAllowed(playerId)])

\* What discardCard checks before it looks for the card.
DiscardAllowed(playerId) ==
    FindPlayer(playerId) # 0 /\ players[FindPlayer(playerId)].discardCards > 0

\* discardCard finds the card and discards it.
Discards(playerId, cardId) ==
    DiscardAllowed(playerId) /\ FindIndex(players[FindPlayer(playerId)].hand, cardId) # 0

\* The players after discardCard(playerId, cardId).
AfterDiscard(playerId, cardId) ==
    LET i == FindPlayer(playerId) IN
    IF Discards(playerId, cardId)
    THEN [players EXCEPT ![i].hand = RemoveAt(@, FindIndex(@, cardId)),
                         ![i].discard = Append(@, cardId),
                         ![i].discardCards = @ - 1]
    ELSE players

discardCard(playerId, cardId) ==
    \/ /\ Discards(playerId, cardId)
       /\ players' = AfterDiscard(playerId, cardId)
       /\ UNCHANGED <<currentPlayerIndex, phase, commonDeck, market, map, pendingConditionalPowers,
                      pendingChoicePowers, choicePowerPrompt, conditionalPowerPrompt>>
       /\ Called([op |-> "discardCard", player |-> FindPlayer(playerId)])
    \/ /\ ~Discards(playerId, cardId)
       /\ Rejected([op |-> "discardCard", player |-> 0,
                    known |-> /\ FindPlayer(playerId) # 0
                              /\ cardId \in Elems(players[FindPlayer(playerId)].hand),
                    credit |-> DiscardAllowed(playerId)])

\* ----------------------------------------------------- the caller (App)

\* canPlayCard(playerId, cardId).
canPlayCard(playerId, cardId) ==
    LET i == FindPlayer(playerId) IN
    /\ i # 0
    /\ cardId \in Elems(players[i].hand)
    /\ LET guildPile == players[i].guildPiles[Catalog(cardId).guild]
       IN \A k \in 1..Len(guildPile) : Catalog(guildPile[k]).color # Catalog(cardId).color
    /\ ~(players[i].discardCards > 0)

\* The player gameState.players[gameState.currentPlayerIndex] of a state copy.
PlayerOf(state) == state.currentPlayerIndex + 1

\* The prompt for the first pending choice power of a state copy.
ChoicePromptOf(state) ==
    [kind |-> "choice", power |-> state.choice[1], choices |-> state.choice[1].choices, state |-> state]

\* A prompt for the pending conditional power added last.
ConditionalPromptOfLast(state) ==
    [kind |-> "conditional", power |-> state.conditional[Len(state.conditional)], state |-> state]

\* The prompt for the first pending conditional power of a state copy.
ConditionalPromptOf(state) ==
    [kind |-> "conditional", power |-> state.conditional[1], state |-> state]

\* App.startGame: initializeGame, then initializeMarket, whose state the caller keeps.
startGame ==
    /\ players = <<>>
    /\ \E k \in Outcomes :
          /\ players' = DealtPlayers(k)
          /\ commonDeck' = IF Len(DealtDeck(k)) >= MarketSize
                           THEN PopInto(DealtDeck(k), <<>>, MarketSize)[1] ELSE DealtDeck(k)
          /\ market' = IF Len(DealtDeck(k)) >= MarketSize
                       THEN PopInto(DealtDeck(k), <<>>, MarketSize)[2] ELSE <<>>
    /\ currentPlayerIndex' = 0
    /\ phase' = "setup"
    /\ map' = initializeMap
    /\ pendingConditionalPowers' = <<>>
    /\ pendingChoicePowers' = <<>>
    /\ UNCHANGED <<choicePowerPrompt, conditionalPowerPrompt>>
    /\ Called([op |-> "startGame"])

\* A check that lets a player place an army on every spot no other player holds.
canPlaceArmyAnywhere(playerId, spotId) ==
    /\ spotId \in DOMAIN map
    /\ ~(map[spotId].occupyingPlayer # NoPlayer /\ map[spotId].occupyingPlayer # playerId)

\* canPlaceArmy(playerId, spotId).
canPlaceArmy(playerId, spotId) ==
    /\ spotId \in DOMAIN map
    /\ ~(map[spotId].occupyingPlayer # NoPlayer /\ map[spotId].occupyingPlayer # playerId)
    /\ \/ SpotType(spotId) = "starting"
       \/ \E adjSpotId \in Adjacent(spotId) :
             adjSpotId \in DOMAIN map /\ map[adjSpotId].occupyingPlayer = playerId

\* App.handleArmyPlacement: the click on a map spot where an army can be placed.
AppPlaceArmy(spotId) ==
    /\ players # <<>>
    /\ players[PlayerOf(gameState)].armies > 0
    /\ canPlaceArmy(PlayerOf(gameState), spotId)
    /\ placeArmy(PlayerOf(gameState), spotId)

\* App.handleConsolidateAction: the button is enabled in the playing phase.
AppConsolidate ==
    /\ players # <<>>
    /\ phase = "playing"
    /\ processAction("consolidate", PlayerOf(gameState), NoCard)

\* App.handleEndTurnAction.
AppEndTurn ==
    /\ players # <<>>
    /\ processAction("endTurn", PlayerOf(gameState), NoCard)

\* App.handleDrawAction.
AppDraw ==
    /\ players # <<>>
    /\ players[PlayerOf(gameState)].drawCards > 0
    /\ drawCard(PlayerOf(gameState))

\* App.handleTakeAction: the click on a card of the market.
AppTake(cardId) ==
    /\ players # <<>>
    /\ players[PlayerOf(gameState)].takeCards > 0
    /\ takeCardFromMarket(PlayerOf(gameState), cardId)

\* App.handleExpandAction: the click on a card of the hand.
AppExpand(cardId) ==
    /\ players # <<>>
    /\ cardId \in Elems(players[PlayerOf(gameState)].hand)
    /\ canPlayCard(PlayerOf(gameState), cardId)
    /\ \/ Expanded(PlayerOf(gameState), cardId)
       \/ /\ ~Expands(cardId)
          /\ Unchanged(NotExpanded)
    /\ choicePowerPrompt' = IF pendingChoicePowers' # <<>> THEN ChoicePromptOf(Returned) ELSE NoPrompt
    /\ conditionalPowerPrompt' =
          IF pendingChoicePowers' = <<>> /\ pendingConditionalPowers' # <<>>
          THEN ConditionalPromptOf(Returned) ELSE NoPrompt
   

\* A step of the caller alone: the engine is not called.
AppOnly(record) ==
    /\ steps < limit
    /\ steps' = steps + 1
    /\ thrown' = FALSE
    /\ last' = record
    /\ owed' = Track(record)
    /\ UNCHANGED limit
    /\ UNCHANGED <<currentPlayerIndex, phase, commonDeck, market, map, pendingConditionalPowers,
                   pendingChoicePowers>>

\* The intents of a list that stay when the answered one is removed.
Remaining(list, power) == FilterOut(list, power.fullText)

\* The onChoice callback of the open choice prompt.
AppChoice(choice) ==
    LET prompt == choicePowerPrompt IN
    /\ prompt.kind # "none"
    /\ choice \in Elems(prompt.choices)
    /\ CASE prompt.kind = "choice" ->
              \* handleChoicePowerResponse
              LET updatedState == [prompt.state EXCEPT !.choice = Remaining(@, prompt.power)] IN
              /\ players' = [players EXCEPT ![PlayerOf(prompt.state)] = executeChoicePower(@, choice)]
              /\ gameState' = updatedState
              /\ choicePowerPrompt' = IF updatedState.choice # <<>> THEN ChoicePromptOf(updatedState)
                                      ELSE NoPrompt
              /\ conditionalPowerPrompt' =
                    IF updatedState.choice = <<>> /\ updatedState.conditional # <<>>
                    THEN ConditionalPromptOf(updatedState) ELSE conditionalPowerPrompt
         [] prompt.kind = "nested" ->
              \* the callback handleConditionalPowerResponse installs (lines 247-272)
              LET updatedState == [prompt.state EXCEPT !.conditional = Remaining(@, prompt.power)] IN
              /\ players' = [players EXCEPT ![PlayerOf(prompt.state)] =
                                executeConditionalPower(@, prompt.power.left, choice)]
              /\ gameState' = updatedState
              /\ choicePowerPrompt' = NoPrompt
              /\ conditionalPowerPrompt' =
                    IF updatedState.conditional # <<>>
                    THEN ConditionalPromptOf(updatedState) ELSE conditionalPowerPrompt
         [] prompt.kind = "benefit" ->
              \* the callback handleDiscardAction installs (lines 393-407)
              /\ players' = [players EXCEPT ![prompt.player] =
                                executeConditionalPowerBenefitOnly(@, choice)]
              /\ gameState' = [prompt.state EXCEPT !.conditional = Remaining(@, prompt.power)]
              /\ choicePowerPrompt' = NoPrompt
              /\ UNCHANGED conditionalPowerPrompt
    /\ AppOnly([op |-> "choice", kind |-> prompt.kind, power |-> prompt.power, choice |-> choice])

\* handleConditionalPowerResponse: the Yes and No buttons of the open prompt.
AppConditional(accept) ==
    LET prompt == conditionalPowerPrompt
        power == prompt.power
        currentState == prompt.state
        updatedState == [currentState EXCEPT !.conditional = Remaining(@, power)] IN
    /\ prompt.kind # "none"
    /\ IF ~accept
       THEN /\ gameState' = updatedState
            /\ conditionalPowerPrompt' = NoPrompt
            /\ UNCHANGED <<players, choicePowerPrompt>>
       ELSE IF IsDiscardCost(power.left)
       THEN /\ players' = [players EXCEPT ![PlayerOf(currentState)] =
                              executeConditionalPower(@, power.left, power.right)]
            /\ gameState' = currentState
            /\ conditionalPowerPrompt' = NoPrompt
            /\ UNCHANGED choicePowerPrompt
       ELSE IF power.nestedChoices # <<>>
       THEN /\ conditionalPowerPrompt' = NoPrompt
            /\ choicePowerPrompt' = [kind |-> "nested", power |-> power,
                                     choices |-> power.nestedChoices, state |-> currentState]
            /\ UNCHANGED <<players, gameState>>
       ELSE /\ players' = [players EXCEPT ![PlayerOf(currentState)] =
                              executeConditionalPower(@, power.left, power.right)]
            /\ gameState' = updatedState
            /\ conditionalPowerPrompt' = IF updatedState.conditional # <<>>
                                         THEN ConditionalPromptOf(updatedState) ELSE NoPrompt
            /\ UNCHANGED choicePowerPrompt
    /\ AppOnly([op |-> "conditional", accept |-> accept, power |-> power,
                player |-> PlayerOf(currentState), discardCost |-> IsDiscardCost(power.left)])

\* The test of handleDiscardAction for a discard-for-benefit power (line 382).
IsDiscardBenefit(power) ==
    /\ Includes(normalizeText(power.fullText), "discard")
    /\ (Includes(power.fullText, AArrow) \/ Includes(power.fullText, Mojibake))

\* App.handleDiscardAction: the click on a card of the hand while discards are due.
AppDiscard(cardId) ==
    LET discarder == PlayerOf(gameState)
        after == AfterDiscard(discarder, cardId)
        updatedPlayer == Current
        newState == Snapshot(currentPlayerIndex, pendingConditionalPowers, pendingChoicePowers)
        due == /\ after[updatedPlayer].discardCards = 0
               /\ gameState.conditional # <<>>
               /\ IsDiscardBenefit(gameState.conditional[1])
        conditionalPower == gameState.conditional[1] IN
    /\ players # <<>>
    /\ players[discarder].discardCards > 0
    /\ cardId \in Elems(players[discarder].hand)
    /\ IF ~due
       THEN /\ players' = after
            /\ gameState' = newState
            /\ UNCHANGED choicePowerPrompt
       ELSE IF CutsAt(normalizeText(conditionalPower.right), "or", TRUE) # {}
       THEN /\ players' = after
            /\ gameState' = newState
            /\ choicePowerPrompt' = [kind |-> "benefit", power |-> conditionalPower,
                                     choices |-> Split(conditionalPower.right, "or", TRUE),
                                     state |-> newState, player |-> updatedPlayer]
       ELSE /\ players' = [after EXCEPT ![updatedPlayer] =
                              executeConditionalPowerBenefitOnly(@, conditionalPower.right)]
            /\ gameState' = [newState EXCEPT !.conditional = Remaining(@, conditionalPower)]
            /\ UNCHANGED choicePowerPrompt
    /\ UNCHANGED conditionalPowerPrompt
    /\ AppOnly([op |-> "discard", player |-> discarder, due |-> due,
                benefit |-> due /\ CutsAt(normalizeText(conditionalPower.right), "or", TRUE) = {},
                power |-> IF due THEN conditionalPower ELSE NoPower])

\* ------------------------------------------------------- the specification

\* The card ids a caller passes for a card of a hand: the cards in the hands, and
\* an id that is in none.
HandInputs == UNION {Elems(players[i].hand) : i \in 1..Len(players)} \cup {NoCard}

\* The card ids a caller passes for a card of the market.
MarketInputs == Elems(market) \cup {NoCard}

Next ==
    \/ initializeGame
    \/ initializeMarket
    \/ \E playerId \in PlayerIds, cardId \in HandInputs : processAction("expand", playerId, cardId)
    \/ \E playerId \in PlayerIds : processAction("consolidate", playerId, NoCard)
    \/ \E playerId \in PlayerIds : processAction("endTurn", playerId, NoCard)
    \/ \E playerId \in PlayerIds, spotId \in SpotInputs : placeArmy(playerId, spotId)
    \/ \E playerId \in PlayerIds : drawCard(playerId)
    \/ \E playerId \in PlayerIds, cardId \in MarketInputs : takeCardFromMarket(playerId, cardId)
    \/ \E playerId \in PlayerIds, cardId \in HandInputs : discardCard(playerId, cardId)
    \/ \E cardId \in HandInputs : AppExpand(cardId)
    \/ \E choice \in Elems(choicePowerPrompt.choices) : AppChoice(choice)
    \/ \E accept \in BOOLEAN : AppConditional(accept)
    \/ \E cardId \in HandInputs : AppDiscard(cardId)

Spec == Init /\ [][Next]_vars

\* The engine driven by the handlers of the App alone, followed for more calls.
AppInit ==
    /\ players = <<>>
    /\ currentPlayerIndex = 0
    /\ phase = "setup"
    /\ commonDeck = <<>>
    /\ market = <<>>
    /\ map = <<>>
    /\ pendingConditionalPowers = <<>>
    /\ pendingChoicePowers = <<>>
    /\ gameState = Snapshot(0, <<>>, <<>>)
    /\ choicePowerPrompt = NoPrompt
    /\ conditionalPowerPrompt = NoPrompt
    /\ thrown = FALSE
    /\ last = [op |-> "new"]
    /\ owed = NoOwed
    /\ steps = 0
    /\ limit = MaxAppSteps

AppNext ==
    \/ startGame
    \/ \E cardId \in Cards : AppExpand(cardId)
    \/ \E choice \in Elems(choicePowerPrompt.choices) : AppChoice(choice)
    \/ \E accept \in BOOLEAN : AppConditional(accept)
    \/ \E spotId \in SpotInputs : AppPlaceArmy(spotId)
    \/ AppConsolidate
    \/ AppEndTurn
    \/ AppDraw
    \/ \E cardId \in Elems(market) : AppTake(cardId)
    \/ \E cardId \in Cards : AppDiscard(cardId)

AppSpec == AppInit /\ [][AppNext]_vars

\* canPlaceArmy asked of a game that was set up, for every player id and spot id a
\* caller may pass, on every map in which the first player holds some of the
\* first spots.
MaxMapSpot == 7

\* The map in which the first player holds the spots of a set.
MapHeldBy(held) ==
    [i \in Spots |-> IF i \in held THEN [occupyingPlayer |-> 1, armies |-> 1]
                     ELSE [occupyingPlayer |-> NoPlayer, armies |-> 0]]

\* The calls of canPlaceArmy that are followed.
MaxQueries == 1

MapInit ==
    /\ players = DealtPlayers(0)
    /\ currentPlayerIndex = 0
    /\ phase = "setup"
    /\ commonDeck = DealtDeck(0)
    /\ market = <<>>
    /\ \E held \in SUBSET (1..MaxMapSpot) : map = MapHeldBy(held)
    /\ pendingConditionalPowers = <<>>
    /\ pendingChoicePowers = <<>>
    /\ gameState = Snapshot(0, <<>>, <<>>)
    /\ choicePowerPrompt = NoPrompt
    /\ conditionalPowerPrompt = NoPrompt
    /\ thrown = FALSE
    /\ last = [op |-> "new"]
    /\ owed = NoOwed
    /\ steps = 0
    /\ limit = MaxQueries

\* A call of canPlaceArmy: the engine's state is read, the answer is returned.
canPlaceArmyCall(playerId, spotId) ==
    /\ steps < limit
    /\ steps' = steps + 1
    /\ last' = [op |-> "canPlaceArmy", player |-> playerId, spot |-> spotId,
                result |-> canPlaceArmy(playerId, spotId)]
    /\ UNCHANGED <<engineVars, appVars, thrown, owed, limit>>

\* getAdjacentSpots(spotId): the adjacency list of the spot, empty for a spot
\* that is not on the map.
getAdjacentSpots(spotId) == IF spotId \in DOMAIN map THEN Adjacent(spotId) ELSE {}

\* A call of getAdjacentSpots and what it returns.
getAdjacentSpotsCall(spotId) ==
    /\ steps < limit
    /\ steps' = steps + 1
    /\ last' = [op |-> "getAdjacentSpots", spot |-> spotId, result |-> getAdjacentSpots(spotId)]
    /\ UNCHANGED <<engineVars, appVars, thrown, owed, limit>>

MapNext ==
    \/ \E playerId \in PlayerIds, spotId \in 1..(MaxMapSpot + 1) \cup {NoSpot} :
          canPlaceArmyCall(playerId, spotId)
    \/ \E spotId \in Spots \cup {NoSpot} : getAdjacentSpotsCall(spotId)

MapSpec == MapInit /\ [][MapNext]_vars

\* processCardEffects applied to the cards of the first hand, for every amount of
\* gold up to MaxGold that earlier payments may have left the player.
MaxGold == 3

\* The cards played that are followed.
MaxPlays == 2

\* The players after initializeGame and the first endTurn, the first with that gold.
PlayersWithGold(k, gold) ==
    LET first == DealtPlayers(k)[1]
        drawn == PopInto(first.deck, first.hand, HandSize)
    IN [DealtPlayers(k) EXCEPT ![1] = [first EXCEPT !.deck = drawn[1], !.hand = drawn[2],
                                                     !.gold = gold]]

EffectsInit ==
    /\ \E k \in Outcomes, gold \in 0..MaxGold :
          /\ players = PlayersWithGold(k, gold)
          /\ commonDeck = DealtDeck(k)
    /\ currentPlayerIndex = 0
    /\ phase = "playing"
    /\ market = <<>>
    /\ map = initializeMap
    /\ pendingConditionalPowers = <<>>
    /\ pendingChoicePowers = <<>>
    /\ gameState = Snapshot(0, <<>>, <<>>)
    /\ choicePowerPrompt = NoPrompt
    /\ conditionalPowerPrompt = NoPrompt
    /\ thrown = FALSE
    /\ last = [op |-> "new"]
    /\ owed = NoOwed
    /\ steps = 0
    /\ limit = MaxPlays

\* processAction with an expand action for a card of the current player's hand.
EffectsNext ==
    \E cardId \in Elems(players[Current].hand) :
        /\ Expanded(Current, cardId)
        /\ UNCHANGED <<choicePowerPrompt, conditionalPowerPrompt>>

EffectsSpec == EffectsInit /\ [][EffectsNext]_vars

\* drawCard, takeCardFromMarket and discardCard called as test_resources.js calls
\* them: on a game that was started, with the credits set by hand.
MaxCredit == 2

\* The cards left in the deck of the first player.
MaxDeckLeft == 1

\* The calls that are followed.
MaxCalls == 3

\* The smaller of two numbers.
Min(a, b) == IF a < b THEN a ELSE b

\* The cards of a sequence, last first.
RECURSIVE Reversed(_)
Reversed(s) == IF s = <<>> THEN <<>> ELSE <<Last(s)>> \o Reversed(Front(s))

\* The players after the first hand was drawn and the first player drew and
\* discarded the cards of its deck down to deckLeft, with those credits.
PlayersWithCredits(k, deckLeft, draws, takes, discards) ==
    LET first == PlayersWithGold(k, StartGold)[1]
        left == Min(deckLeft, Len(first.deck))
    IN [PlayersWithGold(k, StartGold) EXCEPT ![1] =
           [first EXCEPT !.deck = SubSeq(first.deck, 1, left),
                         !.discard = Reversed(SubSeq(first.deck, left + 1, Len(first.deck))),
                         !.drawCards = draws, !.takeCards = takes, !.discardCards = discards]]

ResourcesInit ==
    /\ \E k \in Outcomes, deckLeft \in 0..MaxDeckLeft,
          draws \in 0..MaxCredit, takes \in 0..MaxCredit, discards \in 0..MaxCredit :
          /\ players = PlayersWithCredits(k, deckLeft, draws, takes, discards)
          /\ commonDeck = PopInto(DealtDeck(k), <<>>, MarketSize)[1]
          /\ market = PopInto(DealtDeck(k), <<>>, MarketSize)[2]
    /\ currentPlayerIndex = 0
    /\ phase = "playing"
    /\ map = initializeMap
    /\ pendingConditionalPowers = <<>>
    /\ pendingChoicePowers = <<>>
    /\ gameState = Snapshot(0, <<>>, <<>>)
    /\ choicePowerPrompt = NoPrompt
    /\ conditionalPowerPrompt = NoPrompt
    /\ thrown = FALSE
    /\ last = [op |-> "new"]
    /\ owed = NoOwed
    /\ steps = 0
    /\ limit = MaxCalls

\* The calls of the test, while it runs, for every id and card a caller passes.
ResourcesNext ==
    \/ \E playerId \in PlayerIds :
          /\ steps < limit
          /\ drawCard(playerId)
    \/ \E playerId \in PlayerIds, cardId \in MarketInputs :
          /\ steps < limit
          /\ takeCardFromMarket(playerId, cardId)
    \/ \E playerId \in PlayerIds, cardId \in HandInputs :
          /\ steps < limit
          /\ discardCard(playerId, cardId)

ResourcesSpec == ResourcesInit /\ [][ResourcesNext]_vars

\* A game played through the engine alone: the first endTurn, then expand for
\* the cards of the hand and drawCard for the credits they grant. The shuffle of
\* initializeGame is one that deals the first player only cards of one guild,
\* cut at one of the first MaxCut places.
MaxCut == 2

\* The calls that are followed.
MaxPileCalls == 8

PileInit ==
    /\ \E cut \in 0..MaxCut :
          players = [DealtPlayers(0) EXCEPT ![1].deck = Rotate(@, cut)]
    /\ commonDeck = DealtDeck(0)
    /\ currentPlayerIndex = 0
    /\ phase = "setup"
    /\ market = <<>>
    /\ map = initializeMap
    /\ pendingConditionalPowers = <<>>
    /\ pendingChoicePowers = <<>>
    /\ gameState = Snapshot(0, <<>>, <<>>)
    /\ choicePowerPrompt = NoPrompt
    /\ conditionalPowerPrompt = NoPrompt
    /\ thrown = FALSE
    /\ last = [op |-> "initializeGame"]
    /\ owed = NoOwed
    /\ steps = 0
    /\ limit = MaxPileCalls

PileNext ==
    \/ /\ phase = "setup"
       /\ processAction("endTurn", Current, NoCard)
    \/ \E cardId \in Elems(players[Current].hand) :
          /\ phase = "playing"
          /\ processAction("expand", Current, cardId)
    \/ /\ phase = "playing"
       /\ drawCard(Current)

PileSpec == PileInit /\ [][PileNext]_vars

\* processCardEffects applied to first hands of every guild: createShuffledDeck
\* leaves the ten cards of one guild on top of the common deck, and the shuffle
\* of the private deck cuts it at one of the first MaxTextCut places.
MaxTextCut == 5

\* The cards played that are followed.
MaxTextPlays == 3

\* The players after initializeGame and the first endTurn, the first holding
\* cards of the guild at that place of the catalog.
PlayersWithHand(g, cut) ==
    LET dealt == DealtPlayers(g * CardsPerGuild)
        drawn == PopInto(Rotate(dealt[1].deck, cut), dealt[1].hand, HandSize)
    IN [dealt EXCEPT ![1] = [dealt[1] EXCEPT !.deck = drawn[1], !.hand = drawn[2]]]

TextsInit ==
    /\ \E g \in 0..(Len(CatalogGuilds) - 1), cut \in 0..MaxTextCut :
          /\ players = PlayersWithHand(g, cut)
          /\ commonDeck = DealtDeck(g * CardsPerGuild)
    /\ currentPlayerIndex = 0
    /\ phase = "playing"
    /\ market = <<>>
    /\ map = initializeMap
    /\ pendingConditionalPowers = <<>>
    /\ pendingChoicePowers = <<>>
    /\ gameState = Snapshot(0, <<>>, <<>>)
    /\ choicePowerPrompt = NoPrompt
    /\ conditionalPowerPrompt = NoPrompt
    /\ thrown = FALSE
    /\ last = [op |-> "new"]
    /\ owed = NoOwed
    /\ steps = 0
    /\ limit = MaxTextPlays

\* processAction with an expand action for a card of the current player's hand.
TextsNext ==
    \E cardId \in Elems(players[Current].hand) :
        /\ Expanded(Current, cardId)
        /\ UNCHANGED <<choicePowerPrompt, conditionalPowerPrompt>>

TextsSpec == TextsInit /\ [][TextsNext]_vars

\* placeArmy called by both players on a game in which card effects have left
\* each of them up to MaxArmies unplaced armies.
MaxArmies == 2

\* The spots a caller names.
MaxArmySpot == 3

\* The calls that are followed.
MaxPlacements == 4

\* The players after the first hand was drawn, holding those unplaced armies.
PlayersWithArmies(first, second) ==
    [PlayersWithGold(0, StartGold) EXCEPT ![1].armies = first, ![2].armies = second]

ArmiesInit ==
    /\ \E first \in 0..MaxArmies, second \in 0..MaxArmies :
          players = PlayersWithArmies(first, second)
    /\ commonDeck = DealtDeck(0)
    /\ currentPlayerIndex = 0
    /\ phase = "playing"
    /\ market = <<>>
    /\ map = initializeMap
    /\ pendingConditionalPowers = <<>>
    /\ pendingChoicePowers = <<>>
    /\ gameState = Snapshot(0, <<>>, <<>>)
    /\ choicePowerPrompt = NoPrompt
    /\ conditionalPowerPrompt = NoPrompt
    /\ thrown = FALSE
    /\ last = [op |-> "new"]
    /\ owed = NoOwed
    /\ steps = 0
    /\ limit = MaxPlacements

\* placeArmy for every player id and spot id a caller passes.
ArmiesNext ==
    \E playerId \in PlayerIds, spotId \in 1..MaxArmySpot \cup {NoSpot} :
        /\ steps < limit
        /\ placeArmy(playerId, spotId)

ArmiesSpec == ArmiesInit /\ [][ArmiesNext]_vars

\* The App's expand and prompt handlers on a game whose shuffle dealt the first
\* hand the fifth card of every guild, the card whose bonus is 'Pay 2 Gold'.
MaxPaySteps == 8

\* The place of the fifth card of a guild among the cards of the guild.
PaySlot == 4

\* That shuffle, as an exchange of cards with the deal of DealtPlayers(0): the
\* fifth card of each guild takes the place of one of the first hand.
Exchange(c) ==
    LET first == DealFrom(shuffleArray(allCards, 0), NumPlayers)[1]
        hand == PopInto(first, <<>>, HandSize)[2]
        fifth == [g \in 1..HandSize |-> (g - 1) * CardsPerGuild + PaySlot + 1]
    IN IF \E g \in 1..HandSize : c = fifth[g]
       THEN hand[CHOOSE g \in 1..HandSize : c = fifth[g]]
       ELSE IF \E g \in 1..HandSize : c = hand[g]
       THEN fifth[CHOOSE g \in 1..HandSize : c = hand[g]]
       ELSE c

\* The cards of a zone after the exchange.
Exchanged(zone) == [k \in 1..Len(zone) |-> Exchange(zone[k])]

\* The players after initializeGame with that shuffle and the first endTurn.
PlayersWithPayCards ==
    [i \in 1..NumPlayers |->
        [PlayersWithGold(0, StartGold)[i] EXCEPT !.deck = Exchanged(@), !.hand = Exchanged(@)]]

PayInit ==
    /\ players = PlayersWithPayCards
    /\ commonDeck = Exchanged(DealtDeck(0))
    /\ currentPlayerIndex = 0
    /\ phase = "playing"
    /\ market = <<>>
    /\ map = initializeMap
    /\ pendingConditionalPowers = <<>>
    /\ pendingChoicePowers = <<>>
    /\ gameState = Snapshot(0, <<>>, <<>>)
    /\ choicePowerPrompt = NoPrompt
    /\ conditionalPowerPrompt = NoPrompt
    /\ thrown = FALSE
    /\ last = [op |-> "endTurn", player |-> 1, own |-> TRUE, setup |-> TRUE]
    /\ owed = NoOwed
    /\ steps = 0
    /\ limit = MaxPaySteps

\* The clicks on a card of the hand and on the buttons of the open prompt.
PayNext ==
    \/ \E cardId \in Cards : AppExpand(cardId)
    \/ \E choice \in Elems(choicePowerPrompt.choices) : AppChoice(choice)
    \/ \E accept \in BOOLEAN : AppConditional(accept)

PaySpec == PayInit /\ [][PayNext]_vars

\* ---------------------------------------------------------------- claims

\* The colour of the card occurs in the pile of its guild of player i.
ColorInPile(i, cardId) ==
    \E k \in 1..Len(players[i].guildPiles[Catalog(cardId).guild]) :
        Catalog(players[i].guildPiles[Catalog(cardId).guild][k]).color = Catalog(cardId).color

\* C1: in every reachable state, for every player and every guild, no two cards
\* at different positions of the guild pile have the same colour.
C1_PileColorsDistinct ==
    \A i \in 1..Len(players) : \A g \in GuildSet :
        \A a, b \in 1..Len(players[i].guildPiles[g]) :
            a # b => Catalog(players[i].guildPiles[g][a]).color
                     # Catalog(players[i].guildPiles[g][b]).color

\* C2: an expand submitted through processAction for a card of the current
\* player's hand whose colour already occurs in the pile of the card's guild is
\* rejected: no expand plays such a card.
C2_ExpandRejectsRepeatedColor ==
    [][(~thrown' /\ last'.op = "expand" /\ last'.card # NoCard)
       => ~ColorInPile(Current, last'.card)]_vars

\* The tier text the claim names for a pile of that length after insertion.
TierText(cardId, length) ==
    CASE length = 1 -> Catalog(cardId).power1
      [] length \in {2, 3} -> Catalog(cardId).power23
      [] length \in {4, 5} -> Catalog(cardId).power45
      [] OTHER -> EmptyText

\* C3: when expand adds a card to a guild pile, the power text resolved is chosen
\* by the length of the pile right after the insertion: 1 selects power1, 2 or 3
\* power23, 4 or 5 power45.
C3_TierByPileLength ==
    [][(~thrown' /\ last'.op = "expand" /\ last'.card # NoCard)
       => LET pile == players'[last'.player].guildPiles[Catalog(last'.card).guild]
          IN /\ pile[Len(pile)] = last'.card
             /\ last'.powerText = TierText(last'.card, Len(pile))]_vars

\* C3 happens: a fourth card was played into a pile and resolved power45.
C3_FourthCardPlayed ==
    /\ ~thrown
    /\ last.op = "expand"
    /\ last.card # NoCard
    /\ Len(players[last.player].guildPiles[Catalog(last.card).guild]) = 4
    /\ last.powerText = Catalog(last.card).power45

\* Every card of every zone, one after the other.
RECURSIVE PlayersCards(_)
PlayersCards(i) ==
    IF i > Len(players) THEN <<>>
    ELSE players[i].hand \o players[i].deck \o players[i].discard \o players[i].exile
         \o players[i].guildPiles[Guilds[1]] \o players[i].guildPiles[Guilds[2]]
         \o players[i].guildPiles[Guilds[3]] \o players[i].guildPiles[Guilds[4]]
         \o players[i].guildPiles[Guilds[5]] \o PlayersCards(i + 1)

AllZones == commonDeck \o market \o PlayersCards(1)

\* C4: after initializeGame every catalog card is in exactly one zone.
C4_CardsConserved ==
    players # <<>> =>
        \A c \in Cards : Cardinality({k \in 1..Len(AllZones) : AllZones[k] = c}) = 1

C6_EveryTurnEndAdvances ==
    [][(~thrown' /\ last'.op \in {"endTurn", "consolidate"})
       => currentPlayerIndex' = (currentPlayerIndex + 1) % Len(players)]_vars

\* C6, amended: every consolidate and every endTurn of the playing phase changes
\* currentPlayerIndex from i to (i + 1) mod n; the endTurn of the setup phase
\* leaves it as it is and starts the playing phase.
C6_TurnEndAdvancesWhilePlaying ==
    [][(~thrown' /\ last'.op \in {"endTurn", "consolidate"})
       => IF last'.op = "endTurn" /\ phase = "setup"
          THEN currentPlayerIndex' = currentPlayerIndex /\ phase' = "playing"
          ELSE currentPlayerIndex' = (currentPlayerIndex + 1) % Len(players)]_vars

\* C6 happens: the last player ended a turn of the playing phase and the index
\* wrapped to 0.
C6_WrappedToFirst ==
    /\ ~thrown
    /\ last.op = "endTurn"
    /\ ~last.setup
    /\ last.player = NumPlayers
    /\ currentPlayerIndex = 0

\* C7: an action whose declared playerId is not the id of the current player
\* leaves the players, the map, the market and currentPlayerIndex unchanged.
C7_OnlyCurrentPlayerActs ==
    [][(\/ /\ last'.op \in {"expand", "consolidate", "endTurn"}
           /\ ~thrown'
           /\ ~last'.own
        \/ /\ last'.op \in {"drawCard", "takeCardFromMarket", "discardCard", "placeArmy"}
           /\ last'.player \notin {0, Current})
       => UNCHANGED <<players, map, market, currentPlayerIndex>>]_vars

\* C8: no call of the engine raises an error, in any state the engine can be in.
C8_NeverRaises == ~thrown

\* The resources and armies of a player.
ResourceFields ==
    {"gold", "knowledge", "victoryPoints", "drawCards", "takeCards", "discardCards",
     "exileCards", "buryCards", "fight", "outpost", "revive", "armies"}

\* The resources in which two player records differ.
Deltas(p, q) == {f \in ResourceFields : p[f] # q[f]}

\* The places of an intent in a list of intents.
PlacesOf(list, power) == {k \in 1..Len(list) : list[k] = power}

\* C9: resolving a pending choice intent with one of its alternatives removes
\* exactly that one intent from the pending choice list, every other pending
\* choice and conditional intent staying in the same order, and applies exactly
\* one resource delta.
C9_ChoiceRemovesOneAppliesOne ==
    [][(last'.op = "choice" /\ last'.kind = "choice")
       => LET before == choicePowerPrompt.state
              i == PlayerOf(before)
          IN /\ \E k \in PlacesOf(before.choice, last'.power) :
                    gameState'.choice = RemoveAt(before.choice, k)
             /\ gameState'.conditional = before.conditional
             /\ Cardinality(Deltas(players[i], players'[i])) = 1
             /\ \A j \in 1..Len(players) : j # i => players'[j] = players[j]]_vars

\* The N of the cost 'discard N card(s)' of the intent last accepted.
OwedCards ==
    LET cost == normalizeText(owed.power.left)
    IN IF Len(cost) >= 2 /\ IsDigits(cost[2]) THEN ParseInt(cost[2]) ELSE 1

\* C10: accepting a conditional intent whose cost is 'discard N card(s)' applies no
\* benefit and keeps the intent: it sets the discard credits of the player to N,
\* and while the player made fewer than N discards since, the benefit was not
\* applied and the intent is in the pending conditional list.
C10_DiscardCostDeferred ==
    [][/\ (last'.op = "conditional" /\ last'.accept /\ last'.discardCost)
          => /\ players' = [players EXCEPT ![owed'.player].discardCards = OwedCards']
             /\ owed'.power \in Elems(gameState'.conditional)
       /\ (owed'.player # 0 /\ owed'.done < OwedCards')
          => /\ ~owed'.benefited
             /\ owed'.power \in Elems(gameState'.conditional)]_vars

\* The discard that is the N-th one since a discard-cost intent was accepted and
\* that brings the discard credits of the player who accepted it to 0.
LastOwedDiscard ==
    /\ last'.op = "discard"
    /\ owed.player # 0
    /\ last'.player = owed.player
    /\ ~owed.benefited
    /\ owed.done < OwedCards
    /\ owed'.done = OwedCards
    /\ players[owed.player].discardCards = 1

\* C11: after a discard-cost conditional intent was accepted, the discard that
\* brings the discard credits to 0 (the N-th one) applies the benefit once, to the
\* player who discarded, and removes the intent from the pending conditional list.
C11_LastDiscardPaysBenefit ==
    [][LastOwedDiscard
       => /\ \E c \in Elems(players[owed.player].hand) :
                players'[owed.player] =
                    executeConditionalPowerBenefitOnly(AfterDiscard(owed.player, c)[owed.player],
                                                       owed.power.right)
          /\ owed.power \notin Elems(gameState'.conditional)]_vars

\* The resource a cost 'pay N gold' or 'pay N knowledge' is paid in, "" for another cost.
CostResource(left) ==
    LET n == normalizeText(left)
    IN IF Len(n) = 3 /\ n[1] = "pay" /\ IsDigits(n[2]) /\ n[3] \in {"gold", "knowledge"}
       THEN n[3] ELSE ""

\* The step resolves a conditional intent whose cost is no discard cost: the
\* acceptance of one without nested choices, or the choice among the nested ones.
ResolvesPaidIntent ==
    \/ /\ last'.op = "conditional"
       /\ last'.accept
       /\ ~last'.discardCost
       /\ last'.power.nestedChoices = <<>>
    \/ /\ last'.op = "choice"
       /\ last'.kind = "nested"

\* The player the intent resolved by the step belongs to.
PayingPlayer ==
    IF last'.op = "conditional" THEN last'.player ELSE PlayerOf(choicePowerPrompt.state)

\* C12: resolving a conditional intent whose cost is not a discard cost applies the
\* cost and the benefit in the same step and removes the intent in that step: the
\* step pays the N gold (or knowledge) of the cost, changes something else for the
\* benefit, and leaves the intent out of the pending conditional list.
C12_PaidIntentAtomic ==
    [][ResolvesPaidIntent
       => LET i == PayingPlayer
              r == CostResource(last'.power.left)
          IN /\ last'.power \notin Elems(gameState'.conditional)
             /\ r # "" => players'[i][r] = players[i][r] - ParseInt(normalizeText(last'.power.left)[2])
             /\ Deltas(players[i], players'[i]) \ {r} # {}]_vars

\* The clauses of a text, as processCardEffects cuts it.
Clauses(text) == Elems(Split(text, Dot, FALSE))

\* In a list of intents none that comes only from the bonus text of the card
\* stands before one that comes only from its tier text.
TierBeforeBonus(list, tierText, bonusText) ==
    \A a, b \in 1..Len(list) :
        (/\ a < b
         /\ list[a].fullText \in Clauses(bonusText) \ Clauses(tierText)
         /\ list[b].fullText \in Clauses(tierText) \ Clauses(bonusText)) => FALSE

\* The prompts that are open present the head of a list: a choice prompt the first
\* pending choice intent, a conditional prompt the first pending conditional intent
\* of a state in which no choice intent is pending.
PromptsInOrder ==
    /\ choicePowerPrompt.kind = "choice"
          => choicePowerPrompt.power = choicePowerPrompt.state.choice[1]
    /\ conditionalPowerPrompt.kind = "conditional"
          => /\ conditionalPowerPrompt.state.choice = <<>>
             /\ conditionalPowerPrompt.power = conditionalPowerPrompt.state.conditional[1]
             /\ choicePowerPrompt.kind # "choice"
    /\ choicePowerPrompt.kind = "nested"
          => /\ choicePowerPrompt.state.choice = <<>>
             /\ choicePowerPrompt.power = choicePowerPrompt.state.conditional[1]

PlayedClauses == Clauses(last'.powerText) \cup Clauses(Catalog(last'.card).bonus)

\* The texts of the intents of a list.
TextsOf(list) == {list[k].fullText : k \in 1..Len(list)}

\* A clause with an arrow.
HasArrow(clause) == Includes(clause, UArrow) \/ Includes(clause, AArrow)

\* A clause with ' or ' between two alternatives.
HasOr(clause) == CutsAt(clause, "or", TRUE) # {}

\* The intent a prompt presents is one of the pending lists of the engine.
PromptIsPending(prompt) ==
    prompt.kind # "none"
        => prompt.power \in Elems(pendingConditionalPowers) \cup Elems(pendingChoicePowers)

\* C14: after every successful expand the pending lists hold exactly the intents
\* of the card just played: the choice list its clauses with ' or ' and no arrow,
\* the conditional list clauses of it with an arrow; the state the caller receives
\* holds the same lists, and no prompt is left open for an intent of an earlier card.
C14_OnlyLastCardPending ==
    [][(~thrown' /\ last'.op = "expand" /\ last'.card # NoCard)
       => /\ TextsOf(pendingChoicePowers') = {c \in PlayedClauses : HasOr(c) /\ ~HasArrow(c)}
          /\ TextsOf(pendingConditionalPowers') \subseteq {c \in PlayedClauses : HasArrow(c)}
          /\ Len(pendingChoicePowers') + Len(pendingConditionalPowers')
                <= Len(Split(last'.powerText, Dot, FALSE))
                   + Len(Split(Catalog(last'.card).bonus, Dot, FALSE))
          /\ gameState'.choice = pendingChoicePowers'
          /\ gameState'.conditional = pendingConditionalPowers'
          /\ PromptIsPending(choicePowerPrompt)'
          /\ PromptIsPending(conditionalPowerPrompt)']_vars

\* C14 happens: a card was played while a prompt for an intent of an earlier card
\* was open, and the lists now hold intents of the new card, none of them an
\* intent of the earlier one.
C14_ExpandedOverOpenPrompt ==
    /\ ~thrown
    /\ last.op = "expand"
    /\ last.card # NoCard
    /\ last.open
    /\ pendingChoicePowers = <<>>
    /\ Len(pendingConditionalPowers) = 2

\* C15: placeArmy changes the state only if the player has armies and canPlaceArmy
\* is true for the player and the spot: a spot that placeArmy changes was one the
\* player could place an army on, and without a changed spot the armies of the
\* players are unchanged.
C15_PlaceArmyOnlyWhereAllowed ==
    [][last'.op = "placeArmy"
       => /\ \A s \in DOMAIN map :
                map'[s] # map[s]
                    => /\ canPlaceArmy(map'[s].occupyingPlayer, s)
                       /\ players[map'[s].occupyingPlayer].armies > 0
          /\ map' = map => players' = players]_vars

\* What the claim says canPlaceArmy returns.
MayPlace(playerId, spotId) ==
    IF spotId \notin Spots THEN FALSE
    ELSE IF map[spotId].occupyingPlayer \notin {NoPlayer, playerId} THEN FALSE
    ELSE IF SpotType(spotId) = "starting" THEN TRUE
    ELSE \E adj \in Adjacent(spotId) : map[adj].occupyingPlayer = playerId

\* C16: canPlaceArmy is false for a spot another player holds; otherwise true for a
\* starting spot; otherwise true exactly if an adjacent spot is held by the same
\* player; and false for an unknown spot id.
C16_CanPlaceArmyAnswer ==
    last.op = "canPlaceArmy" => last.result = MayPlace(last.player, last.spot)

\* C16 happens: canPlaceArmy was asked for a free spot that is no starting spot and
\* has a neighbour held by the player, and answered true.
C16_AdjacentSpotAllowed ==
    /\ last.op = "canPlaceArmy"
    /\ last.spot \in Spots
    /\ SpotType(last.spot) # "starting"
    /\ map[last.spot].occupyingPlayer = NoPlayer
    /\ \E adj \in Adjacent(last.spot) : map[adj].occupyingPlayer = last.player
    /\ last.result

\* The sum of the lengths of a zone of all players.
RECURSIVE ZoneSize(_, _)
ZoneSize(zone, i) ==
    IF i > Len(players) THEN 0 ELSE Len(players[i][zone]) + ZoneSize(zone, i + 1)

\* initializeGame was the last call.
JustInitialized == ~thrown /\ last.op = "initializeGame"

\* The cards are all different and the common deck, the hands and the private
\* decks hold NumCards cards together.
AllCardsDealtOnce ==
    /\ \A a, b \in 1..Len(AllZones) : a # b => AllZones[a] # AllZones[b]
    /\ Len(commonDeck) + ZoneSize("hand", 1) + ZoneSize("deck", 1) = NumCards

MovesFromDeckToHand(i, n) ==
    /\ Len(players'[i].deck) = Len(players[i].deck) - n
    /\ Len(players'[i].hand) = Len(players[i].hand) + n
    /\ Elems(players'[i].hand) = Elems(players[i].hand)
                                 \cup (Elems(players[i].deck) \ Elems(players'[i].deck))
    /\ Elems(players'[i].deck) \subseteq Elems(players[i].deck)

PayGoldClauses ==
    {c \in PlayedClauses : HasArrow(c) /\ CostResource(parseConditionalPower(c)[1]) = "gold"}

\* The N of a clause 'pay N gold -> benefit'.
GoldToPay(clause) == ParseInt(normalizeText(parseConditionalPower(clause)[1])[2])

\* The clauses of a text that grant an army at once: no arrow, no ' or ', and the
\* word army.
ArmyClauses(text) ==
    {k \in 1..Len(Split(text, Dot, FALSE)) :
        LET c == Split(text, Dot, FALSE)[k]
        IN ~HasArrow(c) /\ ~HasOr(c) /\ Includes(normalizeText(c), "army")}

\* C19: when expand resolves a clause 'pay N gold -> benefit' while the gold of the
\* player is less than N, no pending conditional intent is created for the clause
\* and its benefit is not granted: the armies grow by the clauses that grant an
\* army at once and no more. The clause is queued exactly if gold >= N when it is
\* evaluated (the gold before the card, plus what the card granted at once).
C19_UnpayableNotQueued ==
    [][(~thrown' /\ last'.op = "expand" /\ last'.card # NoCard)
       => LET i == last'.player
              before == players[i].gold
              after == players'[i].gold
          IN /\ \A c \in PayGoldClauses :
                    /\ before >= GoldToPay(c) => c \in TextsOf(pendingConditionalPowers')
                    /\ after < GoldToPay(c) => c \notin TextsOf(pendingConditionalPowers')
             /\ after >= before
             /\ players'[i].armies = players[i].armies
                    + Cardinality(ArmyClauses(last'.powerText))
                    + Cardinality(ArmyClauses(Catalog(last'.card).bonus))]_vars

\* C19 happens: a military card with 'Pay 1 Gold -> Army' was played as the first
\* of its pile with no gold: the clause is not pending and one army was granted,
\* the one of the clause 'Army'.
C19_PlayedWithoutGold ==
    /\ ~thrown
    /\ last.op = "expand"
    /\ last.card # NoCard
    /\ <<"Pay", "1", "Gold", UArrow, "Army">> \in Clauses(last.powerText)
    /\ players[last.player].gold = 0
    /\ <<"Pay", "1", "Gold", UArrow, "Army">> \notin TextsOf(pendingConditionalPowers)
    /\ players[last.player].armies = 1

\* The call recorded by a step is one of drawCard, takeCardFromMarket, discardCard.
ResourceCall ==
    ~thrown' /\ last'.op \in {"drawCard", "takeCardFromMarket", "discardCard"}

\* Player i drew the last card of its deck for one draw credit.
DrewFromDeck(i) ==
    /\ players[i].drawCards > 0
    /\ players[i].deck # <<>>
    /\ players' = [players EXCEPT ![i].deck = Front(@),
                                  ![i].hand = Append(@, Last(players[i].deck)),
                                  ![i].drawCards = @ - 1]
    /\ UNCHANGED <<market, commonDeck>>

\* Player i, its deck empty, drew for one draw credit a card of its discard, and
\* the other cards of the discard are its deck.
DrewAfterReshuffle(i) ==
    /\ players[i].drawCards > 0
    /\ players[i].deck = <<>>
    /\ players[i].discard # <<>>
    /\ \E c \in Elems(players[i].discard) :
          /\ players' = [players EXCEPT ![i].deck = players'[i].deck,
                                        ![i].discard = <<>>,
                                        ![i].hand = Append(@, c),
                                        ![i].drawCards = @ - 1]
          /\ Elems(players'[i].deck) = Elems(players[i].discard) \ {c}
          /\ Len(players'[i].deck) = Len(players[i].discard) - 1
    /\ UNCHANGED <<market, commonDeck>>

\* Player i took one card of the market for one take credit, and the market was
\* refilled from the end of the common deck.
TookFromMarket(i) ==
    /\ players[i].takeCards > 0
    /\ \E c \in Elems(market) :
          /\ players' = [players EXCEPT ![i].hand = Append(@, c), ![i].takeCards = @ - 1]
          /\ c \notin Elems(market')
          /\ Elems(market) \ {c} \subseteq Elems(market')
    /\ \E n \in 0..Len(commonDeck) :
          /\ commonDeck' = SubSeq(commonDeck, 1, Len(commonDeck) - n)
          /\ Len(market') = Len(market) - 1 + n
          /\ Elems(market') \ Elems(market) = Elems(commonDeck) \ Elems(commonDeck')

\* Player i discarded one card of its hand for one discard credit.
DiscardedFromHand(i) ==
    /\ players[i].discardCards > 0
    /\ \E k \in 1..Len(players[i].hand) :
          players' = [players EXCEPT ![i].hand = RemoveAt(@, k),
                                     ![i].discard = Append(@, players[i].hand[k]),
                                     ![i].discardCards = @ - 1]
    /\ UNCHANGED <<market, commonDeck>>

\* What the three calls leave alone.
ResourceCallFrame ==
    UNCHANGED <<currentPlayerIndex, phase, map, pendingConditionalPowers, pendingChoicePowers>>

\* C20 as stated: draw, takeFromMarket and discard change the state only when the
\* credit of the player (drawCards, takeCards, discardCards) is greater than 0;
\* a call that succeeds takes one from that credit and moves exactly one card,
\* deck to hand, market to hand or hand to discard; a call that does not leaves
\* hands, decks, discards, market and credits as they were.
C20_ExactlyOneCardMoves ==
    [][ResourceCall
       => /\ ResourceCallFrame
          /\ last'.player = 0 => UNCHANGED <<players, market, commonDeck>>
          /\ (last'.player # 0 /\ last'.op = "drawCard") => DrewFromDeck(last'.player)
          /\ (last'.player # 0 /\ last'.op = "takeCardFromMarket") => TookFromMarket(last'.player)
          /\ (last'.player # 0 /\ last'.op = "discardCard") => DiscardedFromHand(last'.player)]_vars

\* C20, amended: as stated, but a draw from an empty deck with a discard that is
\* not empty moves every card of the discard: one of them to the hand and the
\* others to the deck, for one draw credit.
C20_OneCreditOneTransfer ==
    [][ResourceCall
       => /\ ResourceCallFrame
          /\ last'.player = 0 => UNCHANGED <<players, market, commonDeck>>
          /\ (last'.player # 0 /\ last'.op = "drawCard")
                => (DrewFromDeck(last'.player) \/ DrewAfterReshuffle(last'.player))
          /\ (last'.player # 0 /\ last'.op = "takeCardFromMarket") => TookFromMarket(last'.player)
          /\ (last'.player # 0 /\ last'.op = "discardCard") => DiscardedFromHand(last'.player)]_vars

\* C20 happens: the first player, with at most MaxDeckLeft cards in its deck, drew
\* with its deck empty: the discard is empty and its cards but one are the deck.
C20_DrewFromDiscard ==
    /\ ~thrown
    /\ last.op = "drawCard"
    /\ last.player = 1
    /\ players[1].discard = <<>>
    /\ Len(players[1].deck) > MaxDeckLeft
    /\ players[1].drawCards < MaxCredit

\* The current player owes a discard.
OwesDiscard == players # <<>> /\ players[Current].discardCards > 0

\* C21: while the discardCards of the current player is greater than 0, every
\* expand action is a no-op: the card stays in the hand, no pile changes, no
\* resource changes and the pending intent lists are unchanged; and no step
\* taken in such a state adds a card to a pile of that player.
C21_NoExpandWhileDiscardOwed ==
    [][OwesDiscard
       => /\ (~thrown' /\ last'.op = "expand")
                => /\ last'.card = NoCard
                   /\ UNCHANGED <<players, commonDeck, market, map, currentPlayerIndex, phase,
                                  pendingConditionalPowers, pendingChoicePowers>>
          /\ \A g \in DOMAIN players[Current].guildPiles :
                Len(players'[Current].guildPiles[g]) <= Len(players[Current].guildPiles[g])]_vars

\* C21 happens: an expand action was processed for a player who owes a discard and
\* holds cards, and it played nothing.
C21_ExpandRefused ==
    /\ ~thrown
    /\ last.op = "expand"
    /\ last.card = NoCard
    /\ OwesDiscard
    /\ players[Current].hand # <<>>

\* A consolidate action was processed by the step.
Consolidated == ~thrown' /\ last'.op = "consolidate"

\* C22: for every guild pile that holds two or more cards before consolidate, the
\* one card that remains in the pile after consolidate is the most recent one,
\* the last in play order; the other cards of the pile and the whole hand leave
\* for the discard, which the reshuffle turns into the deck and the new hand.
C22_KeepsMostRecentCard ==
    [][Consolidated
       => LET i == last'.player
              p == players[i]
              q == players'[i]
          IN \A g \in DOMAIN p.guildPiles :
                Len(p.guildPiles[g]) >= 2
                   => /\ q.guildPiles[g] = <<p.guildPiles[g][Len(p.guildPiles[g])]>>
                      /\ Elems(Front(p.guildPiles[g])) \cup Elems(p.hand)
                            \subseteq Elems(q.deck) \cup Elems(q.hand)]_vars

\* The cards of the piles from Guilds[i] on that are not the one card a pile keeps.
RECURSIVE NotKeptCount(_, _)
NotKeptCount(p, i) ==
    IF i > Len(Guilds) THEN 0
    ELSE (IF Len(p.guildPiles[Guilds[i]]) > 1 THEN Len(p.guildPiles[Guilds[i]]) - 1 ELSE 0)
         + NotKeptCount(p, i + 1)

\* The cards a player holds in hand, deck, discard and the positions of the piles
\* that are not kept.
HeldCards(p) == Len(p.hand) + Len(p.deck) + Len(p.discard) + NotKeptCount(p, 1)

\* C23: consolidate puts the shuffled discard below the cards already in the deck
\* and refills the hand from the deck: after it the hand has exactly min(5, k)
\* cards, k the cards held before in hand, deck, discard and the positions of
\* the piles that are not kept, and the cards that were in the deck before are
\* all still in the deck or the hand.
C23_DeckKeptAndHandRefilled ==
    [][Consolidated
       => LET p == players[last'.player]
              q == players'[last'.player]
          IN /\ Len(q.hand) = Min(HandSize, HeldCards(p))
             /\ Elems(p.deck) \subseteq Elems(q.deck) \cup Elems(q.hand)]_vars

\* An endTurn action was processed by the step, in the playing phase.
TurnEnded == ~thrown' /\ last'.op = "endTurn" /\ phase = "playing"

\* C24: an endTurn action in the playing phase sets every transient resource of
\* the player ending the turn to 0 and advances the turn, and leaves unchanged
\* the gold, victoryPoints, hand, deck, discard, exile and guild piles of that
\* player, the whole record of every other player, the map and the common deck.
C24_EndTurnFrame ==
    [][TurnEnded
       => LET i == currentPlayerIndex + 1
              p == players[i]
              q == players'[i]
          IN /\ q.knowledge = 0 /\ q.drawCards = 0 /\ q.takeCards = 0 /\ q.discardCards = 0
             /\ q.exileCards = 0 /\ q.buryCards = 0 /\ q.fight = 0 /\ q.outpost = 0
             /\ q.revive = 0
             /\ currentPlayerIndex' = (currentPlayerIndex + 1) % Len(players)
             /\ q.gold = p.gold /\ q.victoryPoints = p.victoryPoints
             /\ q.hand = p.hand /\ q.deck = p.deck /\ q.discard = p.discard
             /\ q.exile = p.exile /\ q.guildPiles = p.guildPiles
             /\ \A j \in 1..Len(players) : j # i => players'[j] = players[j]
             /\ Len(players') = Len(players)
             /\ UNCHANGED <<map, commonDeck>>]_vars

\* C24 happens: a turn was ended in the playing phase by a player who held
\* transient resources and cards in hand and in a pile.
C24_TurnEndedWithCredits ==
    /\ ~thrown
    /\ last.op = "endTurn"
    /\ ~last.setup
    /\ last.credits > 0
    /\ players[last.player].hand # <<>>
    /\ \E g \in DOMAIN players[last.player].guildPiles : players[last.player].guildPiles[g] # <<>>

\* An expand action played a card in the step.
ExpandSucceeded == ~thrown' /\ last'.op = "expand" /\ last'.card # NoCard

\* C25: a successful expand moves exactly the played card from the hand of the
\* current player to the end of the pile of the card's guild: the hand is one
\* card shorter, that pile one card longer, the other four piles are unchanged;
\* and it leaves currentPlayerIndex, phase, the map, the common deck and the
\* record of every other player unchanged.
C25_ExpandMovesOneCard ==
    [][ExpandSucceeded
       => LET i == currentPlayerIndex + 1
              p == players[i]
              q == players'[i]
              c == last'.card
              g == Catalog(c).guild
          IN /\ c \in Elems(p.hand)
             /\ \E k \in 1..Len(p.hand) : p.hand[k] = c /\ q.hand = RemoveAt(p.hand, k)
             /\ Len(q.hand) = Len(p.hand) - 1
             /\ q.guildPiles[g] = Append(p.guildPiles[g], c)
             /\ \A h \in DOMAIN p.guildPiles : h # g => q.guildPiles[h] = p.guildPiles[h]
             /\ q.deck = p.deck /\ q.discard = p.discard /\ q.exile = p.exile
             /\ \A j \in 1..Len(players) : j # i => players'[j] = players[j]
             /\ Len(players') = Len(players)
             /\ UNCHANGED <<currentPlayerIndex, phase, map, commonDeck>>]_vars

\* C25 happens: the card an expand played is the last of a pile of two or more
\* cards and is no longer in the hand.
C25_SecondCardOnPile ==
    /\ ~thrown
    /\ last.op = "expand"
    /\ last.card # NoCard
    /\ LET p == players[last.player]
           pile == p.guildPiles[Catalog(last.card).guild]
       IN /\ Len(pile) >= 2
          /\ pile[Len(pile)] = last.card
          /\ last.card \notin Elems(p.hand)

\* A conditional prompt was declined in the step.
Declined == ~thrown' /\ last'.op = "conditional" /\ ~last'.accept

\* C26: declining a pending conditional intent removes that one intent from the
\* pending conditional list and changes nothing else: the players (gold,
\* victoryPoints, armies, credits, hand, deck, discard, piles), the map, the
\* turn and all other pending intents of the state the caller holds are
\* unchanged.
C26_DeclineRemovesOnlyTheIntent ==
    [][Declined
       => /\ UNCHANGED <<players, map, commonDeck, market, currentPlayerIndex, phase>>
          /\ \E k \in 1..Len(gameState.conditional) :
                /\ gameState.conditional[k] = last'.power
                /\ gameState'.conditional = RemoveAt(gameState.conditional, k)
          /\ gameState'.choice = gameState.choice
          /\ gameState'.currentPlayerIndex = gameState.currentPlayerIndex]_vars

\* C27: in every reachable state, every guild pile of every player holds at most
\* 5 cards.
C27_PileAtMostFive ==
    \A i \in 1..Len(players) : \A g \in DOMAIN players[i].guildPiles :
        Len(players[i].guildPiles[g]) <= Len(Colors)

\* The calls that name a card or a spot.
NamingCalls == {"expand", "takeCardFromMarket", "discardCard", "placeArmy"}

\* The step is a call that named a card or spot that is not there (a card that is
\* not in the hand, not in the market, a spot that is not on the map).
NamedUnknown ==
    ~thrown' /\ last'.op \in NamingCalls /\ last'.player = 0 /\ ~last'.known

\* The step is a call that named a card or a spot and changed the state.
NamedAndActed ==
    ~thrown' /\ last'.op \in NamingCalls /\ last'.player # 0

\* The cards a zone gained in the step.
Gained(before, after) == Elems(after) \ Elems(before)

\* C28: an action that names an unknown identifier is a no-op: expand or discard
\* with a card that is not in the hand, takeFromMarket with a card that is not
\* in the market and placeArmy with a spot that is not on the map leave hands,
\* decks, discards, piles, market, map, resources, credits, armies and pending
\* intents unchanged, and consume no credit. So the calls that act named a card
\* of the hand, a card of the market or a spot of the map.
C28_UnknownIdIsNoOp ==
    [][/\ NamedUnknown
          => UNCHANGED <<players, market, map, commonDeck, currentPlayerIndex, phase,
                         pendingConditionalPowers, pendingChoicePowers>>
       /\ NamedAndActed
          => LET i == last'.player IN
             CASE last'.op = "expand" -> last'.card \in Elems(players[i].hand)
               [] last'.op = "takeCardFromMarket" ->
                     /\ Gained(players[i].hand, players'[i].hand) \subseteq Elems(market)
                     /\ Gained(players[i].hand, players'[i].hand) # {}
               [] last'.op = "discardCard" ->
                     /\ Gained(players[i].discard, players'[i].discard) \subseteq Elems(players[i].hand)
                     /\ Gained(players[i].discard, players'[i].discard) # {}
               [] last'.op = "placeArmy" ->
                     /\ DOMAIN map' = DOMAIN map
                     /\ \E s \in DOMAIN map : map'[s] # map[s]]_vars

\* C28 happens: a card that is not in the market was asked of it by a player with
\* a take credit, and nothing was taken.
C28_UnknownCardAsked ==
    /\ ~thrown
    /\ last.op = "takeCardFromMarket"
    /\ last.player = 0
    /\ ~last.known
    /\ last.credit
    /\ market # <<>>

\* The row and the column of a spot on the grid of GridSize columns.
RowOf(i) == (i - 1) \div GridSize

ColOf(i) == (i - 1) % GridSize

\* The distance between two numbers.
Distance(a, b) == IF a < b THEN b - a ELSE a - b

\* The spots one step up, down, left or right of a spot, inside the grid.
GridNeighbours(i) ==
    {j \in Spots : Distance(RowOf(i), RowOf(j)) + Distance(ColOf(i), ColOf(j)) = 1}

RECURSIVE CardsInPiles(_, _)
CardsInPiles(p, i) ==
    IF i > Len(Guilds) THEN 0
    ELSE Len(p.guildPiles[Guilds[i]]) + CardsInPiles(p, i + 1)

\* The cards the current player played since its turn began, in a game whose
\* piles were empty when the turn began and whose turn has not ended since: the
\* cards of its piles.
PlayedThisTurn == CardsInPiles(players[Current], 1)

\* C30: between two consecutive turn-ending actions the current player completes
\* at most one successful expand: an expand that plays a card is never processed
\* when that player played a card already in the same turn (no card power
\* grants an additional play: the engine keeps no count of plays).
C30_OneExpandPerTurn ==
    [][(ExpandSucceeded /\ phase = "playing") => PlayedThisTurn = 0]_vars

\* ---------------------------------------------------------------- C31

\* A player who has neither played nor consolidated: the dealt cards are all in
\* the deck or the hand, and no pile or discard holds a card.
NeverActed(p) ==
    /\ \A g \in GuildSet : p.guildPiles[g] = <<>>
    /\ p.discard = <<>>
    /\ Len(p.deck) + Len(p.hand) = DealSize

\* C31: in the playing phase the current player, as long as that player has
\* neither played nor consolidated, holds a hand of 5 cards.
C31_EveryPlayerStartsWithFive ==
    (players # <<>> /\ phase = "playing" /\ NeverActed(players[Current]))
        => Len(players[Current].hand) = HandSize

\* ---------------------------------------------------------------- C32

\* C32: the market never holds more than 5 cards, whatever calls of
\* initializeMarket and takeCardFromMarket were made.
C32_MarketAtMostFive == Len(market) <= MarketSize

\* ---------------------------------------------------------------- C33

\* The fixed keyword vocabulary, each keyword with the resource it stands for
\* (the card texts write 'VP' for victory point).
Vocabulary ==
    <<<<"army", "armies">>, <<"gold", "gold">>, <<"knowledge", "knowledge">>,
      <<"vp", "victoryPoints">>, <<"draw", "drawCards">>, <<"take", "takeCards">>,
      <<"discard", "discardCards">>, <<"exile", "exileCards">>, <<"bury", "buryCards">>,
      <<"fight", "fight">>, <<"outpost", "outpost">>, <<"revive", "revive">>>>

\* The places of the vocabulary whose keyword a clause contains.
KeywordsOf(clause) == {k \in 1..Len(Vocabulary) : textContains(clause, Vocabulary[k][1])}

\* A clause that is neither a conditional nor a choice and names a keyword.
IsImmediateClause(clause) == ~HasArrow(clause) /\ ~HasOr(clause) /\ KeywordsOf(clause) # {}

\* The resource of the first keyword of the vocabulary an immediate clause contains.
ResourceOf(clause) ==
    Vocabulary[CHOOSE k \in KeywordsOf(clause) : \A j \in KeywordsOf(clause) : k <= j][2]

\* The number of immediate clauses of a text that stand for a resource.
ImmediateCount(text, f) ==
    LET parts == Split(text, Dot, FALSE)
    IN Cardinality({i \in 1..Len(parts) : IsImmediateClause(parts[i]) /\ ResourceOf(parts[i]) = f})

\* C33: an expand raises every resource by one for each immediate clause of the
\* tier text and of the bonus text of the played card that names its keyword,
\* and by nothing else.
C33_ImmediateClausesApplied ==
    [][ExpandSucceeded
       => \A f \in ResourceFields :
             players'[last'.player][f] - players[last'.player][f]
                 = ImmediateCount(last'.powerText, f) + ImmediateCount(Catalog(last'.card).bonus, f)]_vars

\* ---------------------------------------------------------------- C34

\* A placeArmy call placed an army in the step.
ArmyPlaced == ~thrown' /\ last'.op = "placeArmy" /\ last'.player # 0

\* The armies a player holds: the unplaced ones and those on the spots the
\* player occupies, on a map and among players.
ArmiesOf(i, ps, m) ==
    LET held == {s \in DOMAIN m : m[s].occupyingPlayer = i}
        RECURSIVE Sum(_)
        Sum(S) == IF S = {} THEN 0
                  ELSE LET s == CHOOSE x \in S : TRUE IN m[s].armies + Sum(S \ {s})
    IN ps[i].armies + Sum(held)

\* C34: a successful placeArmy raises the army count of one spot by one, makes
\* the acting player its occupier and takes one unplaced army from that player;
\* every other spot and player is unchanged, and the armies every player holds,
\* unplaced or on the map, are as many as before.
C34_PlaceArmyConservesArmies ==
    [][ArmyPlaced
       => LET i == last'.player IN
          /\ \E s \in DOMAIN map :
                /\ map'[s].armies = map[s].armies + 1
                /\ map'[s].occupyingPlayer = i
                /\ \A t \in DOMAIN map : t # s => map'[t] = map[t]
          /\ players'[i] = [players[i] EXCEPT !.armies = @ - 1]
          /\ \A j \in 1..Len(players) : j # i => players'[j] = players[j]
          /\ \A j \in 1..Len(players) : ArmiesOf(j, players', map') = ArmiesOf(j, players, map)]_vars

\* ---------------------------------------------------------------- C35

\* C35: the gold of a player is never negative, whatever cards were played and
\* whatever intents were accepted.
C35_GoldNeverNegative == \A i \in 1..Len(players) : players[i].gold >= 0

\* ---------------------------------------------------------------- C36

\* The calls that return the engine's state without playing a card.
ReturningCalls == {"drawCard", "takeCardFromMarket", "discardCard", "discard", "placeArmy", "endTurn"}

\* C36: the state a draw, take, discard, placeArmy or endTurn hands the caller
\* holds no pending intent that the state the caller held before the call did
\* not hold: an intent that was resolved or declined does not come back.
C36_RemovedIntentStaysRemoved ==
    [][(~thrown' /\ last'.op \in ReturningCalls)
       => /\ TextsOf(gameState'.choice) \subseteq TextsOf(gameState.choice)
          /\ TextsOf(gameState'.conditional) \subseteq TextsOf(gameState.conditional)]_vars

\* ---------------------------------------------------------------- C37

\* The discard of the step was taken to complete a discard-cost intent: its
\* benefit was applied, or the prompt for the choice of the benefit was opened.
CompletesIntent == ~thrown' /\ last'.op = "discard" /\ last'.due

\* C37: a discard is taken to complete a discard-cost intent only if the player
\* who receives the benefit accepted that intent and its benefit was not applied
\* since.
C37_BenefitOnlyIfAccepted ==
    [][CompletesIntent
       => /\ owed.player = Current
          /\ owed.power = last'.power
          /\ ~owed.benefited]_vars

\* ---------------------------------------------------------------- C38

\* An endTurn or consolidate action handed the turn to another player.
TurnPassed ==
    /\ ~thrown'
    /\ last'.op \in {"endTurn", "consolidate"}
    /\ currentPlayerIndex' # currentPlayerIndex

\* C38: when an endTurn or consolidate action changes currentPlayerIndex, the
\* pending conditional and pending choice lists are empty afterwards, in the
\* engine and in the state the caller receives.
C38_NoIntentAcrossTurns ==
    [][TurnPassed
       => /\ pendingConditionalPowers' = <<>>
          /\ pendingChoicePowers' = <<>>
          /\ gameState'.conditional = <<>>
          /\ gameState'.choice = <<>>]_vars

\* ---------------------------------------------------------------- C39

\* C39: the discards a player owes are never more than the cards in that
\* player's hand, so that they can always be made.
C39_DiscardsCanBeMade ==
    \A i \in 1..Len(players) : players[i].discardCards <= Len(players[i].hand)

\* ---------------------------------------------------------------- C40

\* A spot holds armies exactly when a player occupies it.
ArmiesIffOccupied(m) ==
    \A s \in DOMAIN m : (m[s].armies > 0) <=> (m[s].occupyingPlayer # NoPlayer)

\* C40: on every spot of the map the army count is positive exactly when the
\* spot has an occupying player, and a spot a player occupies is never handed to
\* a different player.
C40_OccupierNeverReplaced ==
    [][/\ ArmiesIffOccupied(map')
       /\ \A s \in DOMAIN map :
             (s \in DOMAIN map' /\ map[s].occupyingPlayer # NoPlayer)
                 => map'[s].occupyingPlayer = map[s].occupyingPlayer]_vars

====
